---- MODULE Spec2Model ----
(***************************************************************************)
(* A model of automate_excel's value shaping (format_values), the range    *)
(* assignment built on it (Workbook.__setitem__ / Range.values) and the    *)
(* serial date conversions (number_to_date / date_to_number), and of the   *)
(* Workbook, Sheet and Range objects around them: construction and file    *)
(* types, indexing, sheets, saving and closing, the with-block, protection,*)
(* comments, select_table and to_dataframe.                                *)
(*                                                                         *)
(* Python values are records [k, v, items]: k is the Python type name, v   *)
(* the payload of a scalar as a sequence of characters, items the elements *)
(* of a container.  Python indexes from 0, the model from 1: Python's      *)
(* array[i, j] is grid[i + 1][j + 1] here.                                 *)
(***************************************************************************)
EXTENDS Integers, Sequences, FiniteSets, TLC

VARIABLES
    values,     \* the argument `values` of the last format_values call
    rows,       \* its argument `rows`
    col,        \* its argument `col`
    result,     \* what the call did: [status, grid]
    sheet,      \* the worksheet: cell (r, c) -> the value it holds
    op,         \* the last range assignment: [impl, key, value, status,
                \* before (the sheet before it), range (the Range's cells after)]
    read,       \* what wb[key].values returned after it: [status, value]
    number,     \* the argument of the last number_to_date call
    date,       \* what number_to_date(number) returned, and as passed on to
                \* date_to_number: [status, kind, y, m, d]
    serial,     \* what date_to_number(date) did: [status, n]
    filepath,   \* the argument `filepath` of Workbook(filepath): [k, chars]
    construct,  \* what the construction did: [status, validated], validated
                \* what validate_file_type(filepath) did: [status, path]
    ref,        \* the item of the last wb[item]
    indexed,    \* what Range(app, item) did: [status, range]
    books,      \* the application's workbooks: 1 the one this Workbook
                \* opened, 2 a copy made by open_in_new_workbook
    activeBook, \* the application's ActiveWorkbook, 0 when there is none
    running,    \* the application is running
    wb,         \* the Workbook object: [save_on_close, quit_on_close]
    call,       \* the last call on it: [op, name, before, after, status, did]
    protected,  \* the sheet's ProtectContents
    wrapper,    \* a call of a function wrapped with run_without_protection:
                \* [pc (idle, func, returned, raised), was (the sheet was
                \* protected at the call), wrote (func has written a cell)]
    start,      \* the cell wb[...] names for select_table: [r, c]
    table,      \* what select_table() did: [status, range]
    comments,   \* the sheet's comments: cell (r, c) -> its text, NoComment
                \* for a cell without one
    note,       \* the last `range.comment = text`: [key, text, status] and
                \* the comments before it, and what wb[other].comment then gave
    block,      \* a with-block on the Workbook: [pc (none, body, exited),
                \* raised (the exception leaving the body), propagated (the
                \* exception leaving the with statement)]
    frame,      \* the last to_dataframe call: [key, header, index] and what
                \* it returned
    process     \* the Python process: [registered (atexit holds the
                \* application's Quit), exited]

vars ==
    <<values, rows, col, result, sheet, op, read, number, date, serial,
      filepath, construct, ref, indexed, books, activeBook, running, wb, call,
      protected, wrapper, start, table, comments, note, block, frame,
      process>>

fmtVars == <<values, rows, col, result>>
rangeVars == <<sheet, op, read>>
dateVars == <<number, date, serial>>
openVars == <<filepath, construct>>
indexVars == <<ref, indexed>>
bookVars == <<books, activeBook, running, wb, call>>
protectVars == <<protected, wrapper>>
tableVars == <<start, table>>
commentVars == <<comments, note>>
withVars == <<block>>
frameVars == <<frame>>
processVars == <<process>>
moreVars == <<commentVars, withVars, frameVars, processVars>>

\* the state of the Workbook, Sheet and Range objects and of the application
workbookVars ==
    <<openVars, indexVars, bookVars, protectVars, tableVars, moreVars>>

----------------------------------------------------------------------------
(* Bounds of the model *)

MaxRows == 3        \* largest target row count
MaxCols == 2        \* largest target column count
MaxSeqRows == 2     \* largest number of rows of a nested input or frame
MaxRowLen == 2      \* largest length of a flat sequence or of an inner row
SheetRows == 3      \* rows of the worksheet
SheetCols == 3      \* columns of the worksheet
DateWindow == 3     \* serial numbers are drawn this far around each anchor
MaxDir == 2         \* longest directory part of a file path

----------------------------------------------------------------------------
(* Python values *)

None == [k |-> "NoneType", v |-> <<>>, items |-> <<>>]
PyInt(c) == [k |-> "int", v |-> <<c>>, items |-> <<>>]
Bool(c) == [k |-> "bool", v |-> <<c>>, items |-> <<>>]
Str(chars) == [k |-> "str", v |-> chars, items |-> <<>>]
Tuple(xs) == [k |-> "tuple", v |-> <<>>, items |-> xs]
List(xs) == [k |-> "list", v |-> <<>>, items |-> xs]
NdArray(xs) == [k |-> "ndarray", v |-> <<>>, items |-> xs]
PyRange(xs) == [k |-> "range", v |-> <<>>, items |-> xs]
DataFrame(rs) == [k |-> "DataFrame", v |-> <<>>, items |-> rs]

\* hasattr(value, '__iter__')
HasIter(value) ==
    value.k \in {"str", "tuple", "list", "ndarray", "range", "DataFrame"}

Digits == <<"0", "1", "2", "3", "4", "5", "6", "7", "8", "9">>

\* range(1, n + 1)
RangeTo(n) == PyRange([i \in 1..n |-> PyInt(Digits[i + 1])])

\* what `for v in value` yields: the characters of a str, the column labels
\* of a frame (0, 1, ... by default), the elements of another container
Elems(value) ==
    IF value.k = "str"
    THEN [i \in 1..Len(value.v) |-> Str(<<value.v[i]>>)]
    ELSE IF value.k = "DataFrame"
    THEN IF Len(value.items) = 0 THEN <<>>
         ELSE [j \in 1..Len(value.items[1].items) |-> PyInt(Digits[j])]
    ELSE value.items

\* len(value): the characters of a str, the rows of a frame, the elements of
\* another container
PyLen(value) ==
    IF value.k = "str" THEN Len(value.v) ELSE Len(value.items)

\* isinstance(value, (list, tuple))
IsListOrTuple(value) == value.k \in {"list", "tuple"}

----------------------------------------------------------------------------
(* is_iter and format_values *)

is_iter_splits_str(value) == HasIter(value)

is_iter(value) == HasIter(value) /\ value.k # "str"

\* the first statement of format_values: the outer tuple of rows
Classify(vals) ==
    IF ~is_iter(vals) THEN <<vals>>
    ELSE IF \E i \in DOMAIN Elems(vals) : is_iter(Elems(vals)[i])
    THEN [i \in DOMAIN Elems(vals) |->
            IF is_iter(Elems(vals)[i]) THEN Elems(vals)[i]
            ELSE Tuple(<<Elems(vals)[i]>>)]
    ELSE <<vals>>

\* max([len(v) if is_iter(v) else 1 for v in values])
RECURSIVE MaxOf(_)
MaxOf(s) ==
    IF Len(s) = 1 THEN s[1]
    ELSE LET m == MaxOf(Tail(s)) IN IF s[1] > m THEN s[1] ELSE m

WidthOf(v) == IF is_iter(v) THEN PyLen(v) ELSE 1

MaxWidth(vs) == MaxOf([i \in DOMAIN vs |-> WidthOf(vs[i])])

ExceedsRowsOnly(vs, r, c) == Len(vs) > r

\* the condition of the raise
Exceeds(vs, r, c) == Len(vs) > r \/ MaxWidth(vs) > c

\* np.full(shape=(rows, col), fill_value=None)
NpFullTransposed(r, c) == [i \in 1..c |-> [j \in 1..r |-> None]]

NpFull(r, c) == [i \in 1..r |-> [j \in 1..c |-> None]]

\* array[i, j] = v on an array in flight: [status, grid]
SetCell(arr, i, j, v) ==
    IF arr.status # "ok" THEN arr
    ELSE IF i \in DOMAIN arr.grid /\ j \in DOMAIN arr.grid[i]
    THEN [arr EXCEPT !.grid[i][j] = v]
    ELSE [arr EXCEPT !.status = "IndexError"]

\* for j, v in enumerate(value): array[i, j] = v
RECURSIVE CopyRow(_, _, _, _)
CopyRow(arr, i, xs, j) ==
    IF j > Len(xs) THEN arr
    ELSE CopyRow(SetCell(arr, i, j, xs[j]), i, xs, j + 1)

PlaceWholeBroadcast(arr, i, value) ==
    IF arr.status # "ok" THEN arr
    ELSE [arr EXCEPT !.grid = [r \in DOMAIN arr.grid |->
                                [c \in DOMAIN arr.grid[r] |-> value]]]

\* the else branch: array[0, i] = value
PlaceWhole(arr, i, value) == SetCell(arr, 1, i, value)

\* one turn of the outer loop
CopyValue(arr, i, value) ==
    IF IsListOrTuple(value)
    THEN CopyRow(arr, i, value.items, 1)
    ELSE PlaceWhole(arr, i, value)

\* for i, value in enumerate(values): ...
RECURSIVE Fill(_, _, _)
Fill(arr, vs, i) ==
    IF i > Len(vs) THEN arr
    ELSE Fill(CopyValue(arr, i, vs[i]), vs, i + 1)

\* format_values(values, rows, col): [status, grid]; an exception returns
\* no grid
format_values(vals, r, c) ==
    LET vs == Classify(vals) IN
    IF Exceeds(vs, r, c) THEN [status |-> "ExcelError", grid |-> <<>>]
    ELSE LET arr == Fill([status |-> "ok", grid |-> NpFull(r, c)], vs, 1) IN
         IF arr.status = "ok" THEN arr
         ELSE [status |-> arr.status, grid |-> <<>>]

----------------------------------------------------------------------------
(* The worksheet and the two Range classes' values setters *)

\* a new workbook's sheet: every cell empty
BlankSheet == [r \in 1..SheetRows |-> [c \in 1..SheetCols |-> None]]

\* a cell range: top-left (r1, c1) to bottom-right (r2, c2)
CellRange(r1, c1, r2, c2) == [r1 |-> r1, c1 |-> c1, r2 |-> r2, c2 |-> c2]

\* Range.rows: self._range.Rows.Count
RangeRows(rng) == rng.r2 - rng.r1 + 1

\* Range.columns: self._range.Columns.Count
RangeColumns(rng) == rng.c2 - rng.c1 + 1

InRange(rng, r, c) == r \in rng.r1..rng.r2 /\ c \in rng.c1..rng.c2

\* self._range.Value2 = values, values a grid of the range's shape: every
\* cell of the range takes its cell of the grid, None leaving it empty
WriteValue2(sh, rng, grid) ==
    [r \in 1..SheetRows |-> [c \in 1..SheetCols |->
        IF InRange(rng, r, c) THEN grid[r - rng.r1 + 1][c - rng.c1 + 1]
        ELSE sh[r][c]]]

\* tuple(map(tuple, values.values)): the frame's cell values, row by row,
\* without its labels
FrameToTuples(df) ==
    Tuple([i \in DOMAIN df.items |-> Tuple(df.items[i].items)])

\* what an assignment did: [status, sheet, range]
Outcome(status, sh, rng) == [status |-> status, sheet |-> sh, range |-> rng]

MainSetValuesClearsFirst(sh, rng, value) ==
    LET vals == IF value.k = "DataFrame" THEN FrameToTuples(value) ELSE value
        res == format_values(vals, RangeRows(rng), RangeColumns(rng))
        cleared == WriteValue2(sh, rng, NpFull(RangeRows(rng), RangeColumns(rng)))
    IN  IF res.status = "ok"
        THEN Outcome("ok", WriteValue2(sh, rng, res.grid), rng)
        ELSE Outcome(res.status, cleared, rng)

\* main.py, Range.values setter
MainSetValues(sh, rng, value) ==
    LET vals == IF value.k = "DataFrame" THEN FrameToTuples(value) ELSE value
        res == format_values(vals, RangeRows(rng), RangeColumns(rng))
    IN  IF res.status = "ok"
        THEN Outcome("ok", WriteValue2(sh, rng, res.grid), rng)
        ELSE Outcome(res.status, sh, rng)

\* range.py, Range.values setter: a frame first moves the range's end cell
\* to start_cell.GetOffset(row_offset, column_offset), which the
\* application refuses (com_error) beyond the sheet's last row or column
RangeSetValues(sh, rng, value) ==
    IF value.k = "DataFrame"
    THEN LET vals == FrameToTuples(value)
             row_offset == PyLen(vals)
             column_offset == MaxWidth(vals.items)
             end_r == rng.r1 + row_offset
             end_c == rng.c1 + column_offset
             moved == CellRange(rng.r1, rng.c1, end_r, end_c)
             res == format_values(vals, RangeRows(moved), RangeColumns(moved))
         IN  IF end_r > SheetRows \/ end_c > SheetCols
             THEN Outcome("com_error", sh, rng)
             ELSE IF res.status = "ok"
             THEN Outcome("ok", WriteValue2(sh, moved, res.grid), moved)
             ELSE Outcome(res.status, sh, moved)
    ELSE LET res == format_values(value, RangeRows(rng), RangeColumns(rng))
         IN  IF res.status = "ok"
             THEN Outcome("ok", WriteValue2(sh, rng, res.grid), rng)
             ELSE Outcome(res.status, sh, rng)

NoOp ==
    [impl |-> "none", key |-> CellRange(1, 1, 1, 1), value |-> None,
     status |-> "none", before |-> BlankSheet, range |-> CellRange(1, 1, 1, 1)]

PyFloat(c) == [k |-> "float", v |-> <<c>>, items |-> <<>>]

\* what Value2 gives back for one cell holding `value`: a number comes back
\* as a float, a boolean and a text as they are, an empty cell as None; a
\* cell that was given the empty text is an empty cell
CellValue2(value) ==
    IF value.k = "int" THEN PyFloat(value.v[1])
    ELSE IF value = Str(<<>>) THEN None
    ELSE value

\* Range.values: self._range.Value2, the bare value of a one-cell range and
\* a tuple of row tuples otherwise
RangeValues(sh, rng) ==
    IF RangeRows(rng) = 1 /\ RangeColumns(rng) = 1
    THEN CellValue2(sh[rng.r1][rng.c1])
    ELSE Tuple([i \in 1..RangeRows(rng) |-> Tuple([j \in 1..RangeColumns(rng) |->
            CellValue2(sh[rng.r1 + i - 1][rng.c1 + j - 1])])])

NotRead == [status |-> "not read", value |-> None]

----------------------------------------------------------------------------
(* datetime arithmetic, number_to_date and date_to_number *)

\* days in each month of a common year, and days before each month
DaysInMonthTable == <<31, 28, 31, 30, 31, 30, 31, 31, 30, 31, 30, 31>>
DaysBeforeMonthTable == <<0, 31, 59, 90, 120, 151, 181, 212, 243, 273, 304, 334>>

IsLeap(y) == y % 4 = 0 /\ (y % 100 # 0 \/ y % 400 = 0)

\* date.toordinal(): 1 for 0001-01-01
ToOrdinal(y, m, d) ==
    LET p == y - 1 IN
    p * 365 + (p \div 4) - (p \div 100) + (p \div 400)
        + DaysBeforeMonthTable[m] + (IF m > 2 /\ IsLeap(y) THEN 1 ELSE 0) + d

\* date.fromordinal(n), 1 <= n: year, month, day
FromOrdinal(n) ==
    LET n0 == n - 1
        n400 == n0 \div 146097
        r400 == n0 % 146097
        n100 == r400 \div 36524
        r100 == r400 % 36524
        n4 == r100 \div 1461
        r4 == r100 % 1461
        n1 == r4 \div 365
        r1 == r4 % 365
        year == n400 * 400 + 1 + n100 * 100 + n4 * 4 + n1
        leapyear == n1 = 3 /\ (n4 # 24 \/ n100 = 3)
        month == (r1 + 50) \div 32
        preceding == DaysBeforeMonthTable[month]
                        + (IF month > 2 /\ leapyear THEN 1 ELSE 0)
        month2 == IF preceding > r1 THEN month - 1 ELSE month
        preceding2 ==
            IF preceding > r1
            THEN preceding - (DaysInMonthTable[month2]
                                + (IF month2 = 2 /\ leapyear THEN 1 ELSE 0))
            ELSE preceding
    IN  IF n1 = 4 \/ n100 = 4
        THEN [y |-> year - 1, m |-> 12, d |-> 31]
        ELSE [y |-> year, m |-> month2, d |-> r1 - preceding2 + 1]

\* datetime(1899, 12, 30)
DateOrigin == [y |-> 1899, m |-> 12, d |-> 30]

\* the last day a datetime can hold: datetime.max is 9999-12-31
MaxOrdinal == ToOrdinal(9999, 12, 31)

NoDate == [status |-> "not called", kind |-> "none", y |-> 0, m |-> 0, d |-> 0]
NoSerial == [status |-> "not called", n |-> 0]

DateRaised(status) == [status |-> status, kind |-> "none", y |-> 0, m |-> 0, d |-> 0]

number_to_date_day_off(n) ==
    LET ord == ToOrdinal(1899, 12, 31) + n
    IN  IF ord < 1 \/ ord > MaxOrdinal THEN DateRaised("OverflowError")
        ELSE LET ymd == FromOrdinal(ord)
             IN  [status |-> "ok", kind |-> "datetime",
                  y |-> ymd.y, m |-> ymd.m, d |-> ymd.d]

\* number_to_date(number): date_origin + timedelta(days=number), a datetime;
\* the sum raises OverflowError outside 0001-01-01..9999-12-31
number_to_date(n) ==
    LET ord == ToOrdinal(DateOrigin.y, DateOrigin.m, DateOrigin.d) + n
    IN  IF n < -999999999 \/ n > 999999999 THEN DateRaised("OverflowError")
        ELSE IF ord < 1 \/ ord > MaxOrdinal THEN DateRaised("OverflowError")
        ELSE LET ymd == FromOrdinal(ord)
             IN  [status |-> "ok", kind |-> "datetime",
                  y |-> ymd.y, m |-> ymd.m, d |-> ymd.d]

\* date_to_number(date): date_origin is a date; a datetime minus a date
\* raises TypeError, and for a date the difference's .days is an int, which
\* .days() calls: TypeError
date_to_number(dt) ==
    IF dt.kind = "datetime"
    THEN [status |-> "TypeError", n |-> 0]
    ELSE LET days == ToOrdinal(dt.y, dt.m, dt.d)
                        - ToOrdinal(DateOrigin.y, DateOrigin.m, DateOrigin.d)
             callable == FALSE
         IN  IF callable THEN [status |-> "ok", n |-> days]
             ELSE [status |-> "TypeError", n |-> 0]

\* datetime.date(): the calendar date of a datetime
DateOf(dt) == [dt EXCEPT !.kind = "date"]

----------------------------------------------------------------------------
(* File types: config, get_extension, validate_file_type, and what        *)
(* Workbook(filepath) does with them.  A path is a sequence of characters; *)
(* the extension None is the empty sequence, which get_extension never     *)
(* returns otherwise.                                                      *)

\* config.supported_exts
supported_exts ==
    << <<".", "c", "s", "v">>, <<".", "d", "b", "f">>, <<".", "d", "i", "f">>,
       <<".", "h", "t", "m">>, <<".", "h", "t", "m", "l">>,
       <<".", "m", "h", "t">>, <<".", "m", "h", "t", "m", "l">>,
       <<".", "o", "d", "s">>, <<".", "p", "d", "f">>, <<".", "p", "r", "n">>,
       <<".", "s", "l", "k">>, <<".", "t", "x", "t">>, <<".", "x", "l", "a">>,
       <<".", "x", "l", "a", "m">>, <<".", "x", "l", "s">>,
       <<".", "x", "l", "s", "b">>, <<".", "x", "l", "s", "m">>,
       <<".", "x", "l", "s", "x">>, <<".", "x", "l", "t">>,
       <<".", "x", "l", "t", "m">>, <<".", "x", "l", "t", "x">>,
       <<".", "x", "l", "w">>, <<".", "x", "m", "l">>, <<".", "x", "p", "s">> >>

\* the keys of config.ext_save_codes
ext_save_codes ==
    { <<".", "x", "l", "a">>, <<".", "c", "s", "v">>, <<".", "t", "x", "t">>,
      <<".", "d", "i", "f">>, <<".", "x", "l", "s", "b">>,
      <<".", "h", "t", "m">>, <<".", "h", "t", "m", "l">>,
      <<".", "o", "d", "s">>, <<".", "x", "l", "a", "m">>,
      <<".", "x", "l", "t", "x">>, <<".", "x", "l", "t", "m">>,
      <<".", "x", "l", "s", "x">>, <<".", "x", "l", "s", "m">>,
      <<".", "x", "l", "t">>, <<".", "x", "l", "s">>, <<".", "x", "m", "l">> }

\* ext in config.supported_exts
InList(x, xs) == \E i \in DOMAIN xs : xs[i] = x

StrPath(chars) == [k |-> "str", chars |-> chars]
NonePath == [k |-> "NoneType", chars |-> <<>>]

\* str(filepath)
PyStr(fp) == IF fp.k = "NoneType" THEN <<"N", "o", "n", "e">> ELSE fp.chars

\* re.findall('\.[^.]*$', s): the places where a full stop followed only by
\* characters other than a full stop reaches the end of s
FindAll(s) ==
    {i \in DOMAIN s : s[i] = "." /\ \A j \in (i + 1)..Len(s) : s[j] # "."}

\* get_extension(filepath): ''.join(matches), None for the empty text
get_extension(fp) ==
    LET s == PyStr(fp)
    IN  IF FindAll(s) = {} THEN <<>>
        ELSE LET i == CHOOSE m \in FindAll(s) : TRUE
             IN  SubSeq(s, i, Len(s))

NoPath == [k |-> "none", chars |-> <<>>]

\* validate_file_type(filepath): [status, path]
validate_file_type(fp) ==
    LET ext == get_extension(fp)
    IN  IF ext # <<>> /\ ~InList(ext, supported_exts)
        THEN [status |-> "ExcelError", path |-> NoPath]
        ELSE [status |-> "ok", path |-> fp]

\* Workbook.save_as(filepath), saves: the application's SaveAs succeeds
save_as(fp, saves) ==
    LET ext == get_extension(fp)
    IN  IF ext # <<>> /\ validate_file_type(fp).status # "ok" THEN "ExcelError"
        ELSE IF ext # <<>> /\ ext \notin ext_save_codes THEN "KeyError"
        ELSE IF saves THEN "ok"
        ELSE "ExcelError"

\* Workbook.open(filepath, ...) on the validated path; dispatch: the
\* application can be reached, exists: os.path.exists(filepath), opens:
\* Workbooks.Open succeeds.  os.path.abspath keeps the last component of the
\* path, so the new file is saved under the extension given.
open(fp, dispatch, exists, opens, saves) ==
    IF ~dispatch THEN "ExcelError"
    ELSE IF fp.k # "NoneType" /\ exists
    THEN (IF opens THEN "ok" ELSE "ExcelError")
    ELSE IF fp.k # "NoneType" /\ fp.chars # <<>>
    THEN save_as(fp, saves)
    ELSE "ok"

\* Workbook.__init__: self.open(validate_file_type(filepath), ...)
WorkbookInit(fp, dispatch, exists, opens, saves) ==
    LET validated == validate_file_type(fp)
    IN  [status |-> IF validated.status # "ok" THEN validated.status
                    ELSE open(validated.path, dispatch, exists, opens, saves),
         validated |-> validated]

\* whether Workbook(filepath) has reached the application: open's Dispatch
\* is its first statement and runs once validate_file_type has returned
dispatched(validated, dispatch) == validated.status = "ok" /\ dispatch

\* whether atexit holds the application's Quit after Workbook(filepath):
\* atexit.register is the statement after self.open(...), which an
\* exception leaving open does not reach
at_exit_registered(status) == status = "ok"

NotConstructed ==
    [status |-> "not constructed",
     validated |-> [status |-> "not called", path |-> NoPath]]

----------------------------------------------------------------------------
(* Cell references and Range.__init__.  The worksheet of the model has     *)
(* SheetRows rows and SheetCols columns: the application resolves a        *)
(* reference to cells within them and refuses any other (com_error).       *)

\* column letters, in column order
Letters == <<"A", "B", "C", "D", "E", "F", "G", "H">>

\* the number an int holds
NumOf(value) == CHOOSE n \in 0..9 : Digits[n + 1] = value.v[1]

\* application.Cells(row, column): [status, r, c]
Cells(row, column) ==
    IF NumOf(row) \in 1..SheetRows /\ NumOf(column) \in 1..SheetCols
    THEN [status |-> "ok", r |-> NumOf(row), c |-> NumOf(column)]
    ELSE [status |-> "com_error", r |-> 0, c |-> 0]

\* a cell named in A1 notation, a column letter and a row digit
A1Cell(chars) ==
    IF /\ Len(chars) = 2
       /\ \E i \in 1..SheetCols : Letters[i] = chars[1]
       /\ \E n \in 1..SheetRows : Digits[n + 1] = chars[2]
    THEN [status |-> "ok",
          r |-> CHOOSE n \in 1..SheetRows : Digits[n + 1] = chars[2],
          c |-> CHOOSE i \in 1..SheetCols : Letters[i] = chars[1]]
    ELSE [status |-> "com_error", r |-> 0, c |-> 0]

Min(a, b) == IF a <= b THEN a ELSE b
Max(a, b) == IF a <= b THEN b ELSE a

NoRange == CellRange(0, 0, 0, 0)

\* application.Range(cell1, cell2): the rectangle the two cells span
AppRangeOfCells(cell1, cell2) ==
    IF cell1.status = "ok" /\ cell2.status = "ok"
    THEN [status |-> "ok",
          range |-> CellRange(Min(cell1.r, cell2.r), Min(cell1.c, cell2.c),
                              Max(cell1.r, cell2.r), Max(cell1.c, cell2.c))]
    ELSE [status |-> "com_error", range |-> NoRange]

\* application.Range(address): 'A1' or 'A1:B2'
AppRange(chars) ==
    IF Len(chars) = 2 THEN AppRangeOfCells(A1Cell(chars), A1Cell(chars))
    ELSE IF Len(chars) = 5 /\ chars[3] = ":"
    THEN AppRangeOfCells(A1Cell(SubSeq(chars, 1, 2)), A1Cell(SubSeq(chars, 4, 5)))
    ELSE [status |-> "com_error", range |-> NoRange]

\* the except clause: 'Could not find range "' + range + '"' is built before
\* ExcelError is raised, and str + tuple raises TypeError
RangeNotFound(range) ==
    IF range.k = "str" THEN [status |-> "ExcelError", range |-> NoRange]
    ELSE [status |-> "TypeError", range |-> NoRange]

\* Range.__init__(application, range): [status, range]
RangeInit(range) ==
    LET found ==
            IF range.k = "tuple"
            THEN IF range.items[1].k = "tuple"
                 THEN AppRangeOfCells(
                        Cells(range.items[1].items[1], range.items[1].items[2]),
                        Cells(range.items[2].items[1], range.items[2].items[2]))
                 ELSE LET cell == Cells(range.items[1], range.items[2])
                      IN  AppRangeOfCells(cell, cell)
            ELSE AppRange(range.v)
    IN  IF found.status = "com_error" THEN RangeNotFound(range) ELSE found

NotIndexed == [status |-> "not indexed", range |-> NoRange]

----------------------------------------------------------------------------
(* The application's workbooks and the Workbook object's methods.  books[1] *)
(* is the workbook the Workbook object opened (self.workbook), books[2] a   *)
(* workbook made by Sheet.open_in_new_workbook; activeBook is the           *)
(* application's ActiveWorkbook (0: none).  A book is [state, name, sheets, *)
(* active, saved]: sheets its sheet names in tab order, active the position *)
(* of its active sheet, saved whether its file holds every change made to   *)
(* it.  self.app.Sheets, self.app.Worksheets and self.app.ActiveSheet are   *)
(* those of the active workbook.                                            *)

\* before=None, after=None
NoName == "None"

Contains(xs, x) == \E i \in DOMAIN xs : xs[i] = x

IndexOf(xs, x) == CHOOSE i \in DOMAIN xs : xs[i] = x

InsertAtEnd(xs, pos, x) == Append(xs, x)

\* xs with x put at position pos, what was at pos and beyond moving up by one
InsertAt(xs, pos, x) ==
    [i \in 1..(Len(xs) + 1) |->
        IF i < pos THEN xs[i] ELSE IF i = pos THEN x ELSE xs[i - 1]]

\* Workbook.sheet_names: [sheet.Name for sheet in self.app.Sheets]
sheet_names(bks, act) == bks[act].sheets

sheet_exists_first_only(bks, act, name) == sheet_names(bks, act)[1] = name

\* Workbook.sheet_exists(name)
sheet_exists(bks, act, name) == Contains(sheet_names(bks, act), name)

\* Workbook.name: self.app.ActiveWorkbook.Name
WorkbookName(bks, act) == bks[act].name

\* the directory the workbook's file is in: self.workbook.Path
WorkbookDir == <<"/", "t">>

\* Workbook.path: os.path.join(self.workbook.Path, self.workbook.Name)
WorkbookPath(bks) == WorkbookDir \o <<"/">> \o bks[1].name

\* Workbook.active_sheet.name: Sheet(self).name, self.app.ActiveSheet.Name
ActiveSheetName(bks, act) == bks[act].sheets[bks[act].active]

\* what a method did: [status, books, active (the active workbook), running,
\* did (the calls made on the application's workbook and on the application)]
Did(status, bks, act, run, did) ==
    [status |-> status, books |-> bks, active |-> act, running |-> run,
     did |-> did]

\* Workbook.add_sheet(name, before, after).  Worksheets.Add(Before, After)
\* puts the new sheet in the place of `before`, or in the place behind
\* `after`, and makes it the active sheet; Worksheets(before) of a sheet
\* that is not there is a com_error, and so is Add with both Before and After
add_sheet(bks, act, name, before, after) ==
    IF sheet_exists(bks, act, name)
    THEN Did("ExcelError", bks, act, TRUE, <<>>)
    ELSE IF before # NoName /\ ~Contains(bks[act].sheets, before)
    THEN Did("com_error", bks, act, TRUE, <<>>)
    ELSE IF after # NoName /\ ~Contains(bks[act].sheets, after)
    THEN Did("com_error", bks, act, TRUE, <<>>)
    ELSE IF before # NoName /\ after # NoName
    THEN Did("com_error", bks, act, TRUE, <<>>)
    ELSE LET pos == IF before # NoName THEN IndexOf(bks[act].sheets, before)
                    ELSE IF after # NoName
                    THEN IndexOf(bks[act].sheets, after) + 1
                    ELSE Len(bks[act].sheets) + 1
         IN  Did("ok",
                 [bks EXCEPT ![act].sheets = InsertAt(@, pos, name),
                             ![act].active = pos,
                             ![act].saved = FALSE],
                 act, TRUE, <<>>)

set_active_sheet_first(bks, act, name) ==
    IF ~sheet_exists(bks, act, name)
    THEN Did("ExcelError", bks, act, TRUE, <<>>)
    ELSE Did("ok", [bks EXCEPT ![act].active = 1], act, TRUE, <<>>)

\* the active_sheet setter
set_active_sheet(bks, act, name) ==
    IF ~sheet_exists(bks, act, name)
    THEN Did("ExcelError", bks, act, TRUE, <<>>)
    ELSE Did("ok", [bks EXCEPT ![act].active = IndexOf(bks[act].sheets, name)],
             act, TRUE, <<>>)

\* the name the application gives the workbook Sheet.Copy() makes
CopyName == <<"B", "o", "o", "k", "2">>

\* Workbook.active_sheet.open_in_new_workbook(): self.sheet.Copy() makes a
\* workbook holding a copy of the sheet alone and activates it
open_in_new_workbook(bks, act) ==
    Did("ok",
        [bks EXCEPT ![2] = [state |-> "open", name |-> CopyName,
                            sheets |-> <<ActiveSheetName(bks, act)>>,
                            active |-> 1, saved |-> FALSE]],
        2, TRUE, <<>>)

\* Workbook.save(): self.app.ActiveWorkbook.Save()
save(bks, act) ==
    Did("ok", [bks EXCEPT ![act].saved = TRUE], act, TRUE, <<>>)

\* workbook.Close(SaveChanges): the file takes the changes if told to, and
\* another open workbook, if any, becomes the active one
CloseBook(bks, b, SaveChanges) ==
    [bks EXCEPT ![b].state = "closed",
                ![b].saved = IF SaveChanges THEN TRUE ELSE @]

\* Application.Quit(): every open workbook is closed unsaved
QuitBooks(bks) ==
    [b \in DOMAIN bks |->
        IF bks[b].state = "open" THEN [bks[b] EXCEPT !.state = "closed"]
        ELSE bks[b]]

close_and_quit(bks, act, save_on_close, quit_on_close) ==
    Did("ok", QuitBooks(CloseBook(bks, 1, save_on_close)), 0, FALSE,
        <<"Close", "Quit">>)

\* Workbook.close()
close(bks, act, save_on_close, quit_on_close) ==
    LET closed == CloseBook(bks, 1, save_on_close)
        next == IF closed[2].state = "open" THEN 2 ELSE 0
    IN  IF quit_on_close
        THEN Did("ok", QuitBooks(closed), 0, FALSE, <<"Close", "Quit">>)
        ELSE Did("ok", closed, next, TRUE, <<"Close">>)

\* the atexit handler registered by Workbook.__init__: Application.Quit
at_exit(bks) == Did("ok", QuitBooks(bks), 0, FALSE, <<"Quit">>)

exit_after_success(bks, act, save_on_close, quit_on_close, raised) ==
    IF raised = "none"
    THEN [did |-> close(bks, act, save_on_close, quit_on_close),
          propagated |-> raised]
    ELSE [did |-> Did("ok", bks, act, TRUE, <<>>), propagated |-> raised]

\* Workbook.__exit__(exctype, excinst, excb), raised the exception that left
\* the body ("none" when it completed): self.close(), and None returned, so
\* the exception goes on.  [did, propagated]
exit(bks, act, save_on_close, quit_on_close, raised) ==
    [did |-> close(bks, act, save_on_close, quit_on_close),
     propagated |-> raised]

NoBook ==
    [state |-> "absent", name |-> <<>>, sheets |-> <<>>, active |-> 0,
     saved |-> TRUE]

NoCall ==
    [op |-> "none", name |-> NoName, before |-> NoName, after |-> NoName,
     status |-> "none", did |-> <<>>]

----------------------------------------------------------------------------
(* Sheet.protected and run_without_protection (sheet.py) *)

\* the protected setter: self.sheet.Protect() or self.sheet.Unprotect();
\* the getter then gives self.sheet.ProtectContents
SetProtected(set_to) == set_to

\* wrapper_unprotect up to the call of func: `if sheet.protected:
\* sheet.protected = False`
BeforeFunc(prot) == IF prot THEN SetProtected(FALSE) ELSE prot

AfterFuncLeftOpen(was, prot) == prot

\* wrapper_unprotect after func has returned: `sheet.protected = True` in the
\* branch taken for a protected sheet, nothing in the other
AfterFunc(was, prot) == IF was THEN SetProtected(TRUE) ELSE prot

\* the wrapper has not been called
NotWrapped == [pc |-> "idle", was |-> FALSE, wrote |-> FALSE]

----------------------------------------------------------------------------
(* Range.select_table.  Cells are named as the code names them, by column   *)
(* letter and row digit; the sheet ends at SheetRows and SheetCols.         *)

\* a cell's address without the $ signs: 'B3'
Address(r, c) == <<Letters[c], Digits[r + 1]>>

\* Range(cell).GetOffset(row_offset, column_offset): [status, r, c]; there
\* is no cell beyond the last row or column
GetOffset(r, c, row_offset, column_offset) ==
    IF r + row_offset \in 1..SheetRows /\ c + column_offset \in 1..SheetCols
    THEN [status |-> "ok", r |-> r + row_offset, c |-> c + column_offset]
    ELSE [status |-> "com_error", r |-> 0, c |-> 0]

\* cell.Value2 is None
IsBlank(sh, r, c) == CellValue2(sh[r][c]) = None

\* Range(cell).End(xlToRight), as Ctrl + right arrow moves: within a run of
\* non-empty cells to the run's last cell, otherwise to the next non-empty
\* cell, and to the last column when there is none
EndToRight(sh, r, c) ==
    IF c = SheetCols THEN c
    ELSE IF ~IsBlank(sh, r, c) /\ ~IsBlank(sh, r, c + 1)
    THEN CHOOSE e \in (c + 1)..SheetCols :
            /\ \A j \in c..e : ~IsBlank(sh, r, j)
            /\ e = SheetCols \/ IsBlank(sh, r, e + 1)
    ELSE IF \E j \in (c + 1)..SheetCols : ~IsBlank(sh, r, j)
    THEN CHOOSE e \in (c + 1)..SheetCols :
            /\ ~IsBlank(sh, r, e)
            /\ \A j \in (c + 1)..(e - 1) : IsBlank(sh, r, j)
    ELSE SheetCols

\* Range(cell).End(xlDown), likewise
EndDown(sh, r, c) ==
    IF r = SheetRows THEN r
    ELSE IF ~IsBlank(sh, r, c) /\ ~IsBlank(sh, r + 1, c)
    THEN CHOOSE e \in (r + 1)..SheetRows :
            /\ \A i \in r..e : ~IsBlank(sh, i, c)
            /\ e = SheetRows \/ IsBlank(sh, e + 1, c)
    ELSE IF \E i \in (r + 1)..SheetRows : ~IsBlank(sh, i, c)
    THEN CHOOSE e \in (r + 1)..SheetRows :
            /\ ~IsBlank(sh, e, c)
            /\ \A i \in (r + 1)..(e - 1) : IsBlank(sh, i, c)
    ELSE SheetRows

\* re.findall('[A-Z]+', address)[0] and re.findall('[0-9]+', address)[0] of
\* a cell's address
ColumnLetters(address) == SelectSeq(address, LAMBDA ch : \E i \in DOMAIN Letters : Letters[i] = ch)
RowDigits(address) == SelectSeq(address, LAMBDA ch : \E i \in DOMAIN Digits : Digits[i] = ch)

\* Range.select_table() of a range starting at cell (r, c): [status, range]
select_table(sh, r, c) ==
    LET start_cell == Address(r, c)
        right == GetOffset(r, c, 0, 1)
        below == GetOffset(r, c, 1, 0)
    IN  IF right.status # "ok" THEN [status |-> "com_error", range |-> NoRange]
        ELSE IF below.status # "ok"
        THEN [status |-> "com_error", range |-> NoRange]
        ELSE LET end_column ==
                    IF IsBlank(sh, right.r, right.c)
                    THEN ColumnLetters(start_cell)
                    ELSE ColumnLetters(Address(r, EndToRight(sh, r, c)))
                 end_index ==
                    IF IsBlank(sh, below.r, below.c)
                    THEN RowDigits(start_cell)
                    ELSE RowDigits(Address(EndDown(sh, r, c), c))
                 end_cell == end_column \o end_index
             IN  AppRange(start_cell \o <<":">> \o end_cell)

NotSelected == [status |-> "not called", range |-> NoRange]

\* no with-block has been entered
NoBlock == [pc |-> "none", raised |-> "none", propagated |-> "none"]

\* to_dataframe has not been called
NoFrame ==
    [key |-> CellRange(1, 1, 1, 1), header |-> FALSE, index |-> FALSE,
     status |-> "not called", columns |-> <<>>, rows |-> <<>>, data |-> <<>>]

\* bool(value), as `if self.values:` takes it
Truthy(value) ==
    IF value.k = "NoneType" THEN FALSE
    ELSE IF value.k \in {"int", "float"} THEN value.v # <<"0">>
    ELSE IF value.k = "bool" THEN value.v = <<"True">>
    ELSE IF value.k = "str" THEN value.v # <<>>
    ELSE value.items # <<>>

\* the labels pandas gives by default: 0, 1, ..., n - 1
DefaultLabels(n) == [i \in 1..n |-> PyInt(Digits[i])]

\* pd.DataFrame(data), data a list of rows (tuples) or of scalars, a scalar
\* making a row of one cell: [columns, rows, data], columns and rows the
\* column labels and the index labels
PdDataFrame(data) ==
    LET cells == [i \in DOMAIN data |->
                    IF data[i].k = "tuple" THEN data[i].items ELSE <<data[i]>>]
        width == IF cells = <<>> THEN 0 ELSE Len(cells[1])
    IN  [columns |-> DefaultLabels(width), rows |-> DefaultLabels(Len(cells)),
         data |-> cells]

\* dataframe.columns = dataframe.iloc[0]; dataframe = dataframe.iloc[1:]
FirstRowAsHeader(df) ==
    [columns |-> df.data[1], rows |-> Tail(df.rows), data |-> Tail(df.data)]

\* dataframe.set_index(dataframe.columns[0], drop=True, inplace=True)
FirstColumnAsIndex(df) ==
    [columns |-> Tail(df.columns),
     rows |-> [i \in DOMAIN df.data |-> df.data[i][1]],
     data |-> [i \in DOMAIN df.data |-> Tail(df.data[i])]]

\* Range.to_dataframe(header, index): [status, columns, rows, data]; status
\* "None" when None is returned.  list(self.values) raises TypeError for a
\* number or a boolean and splits a text into its characters.
to_dataframe(sh, rng, header, index) ==
    LET vals == RangeValues(sh, rng)
        none == [status |-> "None", columns |-> <<>>, rows |-> <<>>, data |-> <<>>]
    IN  IF ~Truthy(vals) THEN none
        ELSE IF ~HasIter(vals) THEN [none EXCEPT !.status = "TypeError"]
        ELSE LET df0 == PdDataFrame(Elems(vals))
                 df1 == IF header THEN FirstRowAsHeader(df0) ELSE df0
                 df2 == IF index THEN FirstColumnAsIndex(df1) ELSE df1
             IN  [status |-> "ok", columns |-> df2.columns, rows |-> df2.rows,
                  data |-> df2.data]

\* no Workbook has been constructed in the process
NoProcess == [registered |-> FALSE, exited |-> FALSE]

----------------------------------------------------------------------------
(* Range.comment.  A cell's comment is its text, None for a cell without a  *)
(* Comment object.                                                          *)

\* a sheet without comments
NoComments == [r \in 1..SheetRows |-> [c \in 1..SheetCols |-> None]]

ClearNoComments(cm, rng) == cm

\* clear('comments') of main.py, clear_comments() of range.py:
\* self._range.ClearComments() removes the comment of every cell of the range
ClearComments(cm, rng) ==
    [r \in 1..SheetRows |-> [c \in 1..SheetCols |->
        IF InRange(rng, r, c) THEN None ELSE cm[r][c]]]

\* cell.AddComment(text): [status, comments]; the application refuses a
\* second comment on a cell (com_error)
AddComment(cm, r, c, text) ==
    IF cm[r][c] # None THEN [status |-> "com_error", comments |-> cm]
    ELSE [status |-> "ok", comments |-> [cm EXCEPT ![r][c] = text]]

\* the comment setter: [status, comments]; self._range.Cells(1) is the
\* range's first cell
set_comment(cm, rng, text) ==
    LET cleared == ClearComments(cm, rng)
    IN  IF text # None THEN AddComment(cleared, rng.r1, rng.c1, text)
        ELSE [status |-> "ok", comments |-> cleared]

\* the comment getter: Cells(1).Comment.Text() when there is a Comment
get_comment(cm, rng) ==
    IF cm[rng.r1][rng.c1] # None THEN cm[rng.r1][rng.c1] ELSE None

NoNote ==
    [key |-> CellRange(1, 1, 1, 1), text |-> None, status |-> "none",
     before |-> NoComments, sets |-> 0, other |-> CellRange(1, 1, 1, 1),
     read |-> NotRead]

----------------------------------------------------------------------------
(* The inputs the model draws from *)

\* sequences over S of length 0..n
SeqsUpTo(S, n) == UNION {[1..m -> S] : m \in 0..n}

Scalars ==
    {None, PyInt("1"), Bool("True"), Str(<<"a", "b">>), Str(<<"c">>), Str(<<>>)}

\* the scalars used as elements of sequences
Elements == {PyInt("1"), Str(<<"a", "b">>)}

FlatContents == SeqsUpTo(Elements, MaxRowLen)

\* flat sequences: tuples, lists and range objects
FlatInputs ==
    {Tuple(xs) : xs \in FlatContents} \cup {List(xs) : xs \in FlatContents}
        \cup {RangeTo(n) : n \in 1..MaxRowLen}

\* an element of a nested input: a row, or a scalar among the rows
RowElements ==
    {Tuple(xs) : xs \in FlatContents} \cup {RangeTo(n) : n \in 1..MaxRowLen}
        \cup Elements

NestedInputs ==
    {Tuple(xs) : xs \in {ys \in SeqsUpTo(RowElements, MaxSeqRows) :
                            \E i \in DOMAIN ys : ys[i] \notin Elements}}

\* pandas.DataFrame(data): r rows by c columns, r, c >= 1
Frames ==
    UNION {{DataFrame([i \in 1..r |-> NdArray(m[i])]) :
                m \in [1..r -> [1..c -> Elements]]} :
           r \in 1..MaxSeqRows, c \in 1..MaxRowLen}

Inputs == Scalars \cup FlatInputs \cup NestedInputs \cup Frames

NotCalled == [status |-> "not called", grid |-> <<>>]

----------------------------------------------------------------------------
(* format_values called on its own *)

IdleFmt ==
    /\ values = None
    /\ rows = 1
    /\ col = 1
    /\ result = NotCalled

IdleRange ==
    /\ sheet = BlankSheet
    /\ op = NoOp
    /\ read = NotRead

IdleDate ==
    /\ number = 0
    /\ date = NoDate
    /\ serial = NoSerial

IdleOpen ==
    /\ filepath = NonePath
    /\ construct = NotConstructed

IdleIndex ==
    /\ ref = None
    /\ indexed = NotIndexed

IdleBook ==
    /\ books = <<NoBook, NoBook>>
    /\ activeBook = 0
    /\ running = FALSE
    /\ wb = [save_on_close |-> FALSE, quit_on_close |-> FALSE]
    /\ call = NoCall

IdleProtect ==
    /\ protected = FALSE
    /\ wrapper = NotWrapped

IdleTable ==
    /\ start = [r |-> 1, c |-> 1]
    /\ table = NotSelected

IdleComment ==
    /\ comments = NoComments
    /\ note = NoNote

IdleWith == block = NoBlock

IdleFrame == frame = NoFrame

IdleProcess == process = NoProcess

IdleMore ==
    /\ IdleComment
    /\ IdleWith
    /\ IdleFrame
    /\ IdleProcess

IdleWorkbook ==
    /\ IdleOpen
    /\ IdleIndex
    /\ IdleBook
    /\ IdleProtect
    /\ IdleTable
    /\ IdleMore

InitFormat ==
    /\ values \in Inputs
    /\ rows \in 1..MaxRows
    /\ col \in 1..MaxCols
    /\ result = NotCalled
    /\ IdleRange
    /\ IdleDate
    /\ IdleWorkbook

\* result = format_values(values, rows, col), values not a frame
FormatValues ==
    /\ result = NotCalled
    /\ values.k # "DataFrame"
    /\ result' = format_values(values, rows, col)
    /\ UNCHANGED <<values, rows, col, rangeVars, dateVars, workbookVars>>

\* a frame is converted before it is shaped, as the values setter does
FormatFrame ==
    /\ result = NotCalled
    /\ values.k = "DataFrame"
    /\ result' = format_values(FrameToTuples(values), rows, col)
    /\ UNCHANGED <<values, rows, col, rangeVars, dateVars, workbookVars>>

NextFormat == FormatValues \/ FormatFrame

SpecFormat == InitFormat /\ [][NextFormat]_vars

----------------------------------------------------------------------------
(* Range assignment: wb[key] = value *)

\* what a cell held before the assignment, distinct from everything assigned
Old == PyInt("7")

\* the sheet as the workbook was opened: empty, or holding earlier content
OpenedSheets ==
    {BlankSheet, [r \in 1..SheetRows |-> [c \in 1..SheetCols |-> Old]]}

\* the ranges a key can address
Keys ==
    {k \in [r1 : 1..SheetRows, c1 : 1..SheetCols,
             r2 : 1..SheetRows, c2 : 1..SheetCols] :
        k.r1 <= k.r2 /\ k.c1 <= k.c2}

AssignedContents == SeqsUpTo({PyInt("1")}, MaxRowLen)

AssignedRows == {Tuple(xs) : xs \in AssignedContents} \cup {PyInt("1")}

\* the values assigned: scalars, flat lists and tuples, nested tuples, frames
AssignedValues ==
    Scalars
        \cup {Tuple(xs) : xs \in AssignedContents}
        \cup {List(xs) : xs \in AssignedContents}
        \cup {Tuple(xs) : xs \in {ys \in SeqsUpTo(AssignedRows, MaxSeqRows) :
                                    \E i \in DOMAIN ys : ys[i] # PyInt("1")}}
        \cup Frames

InitRange ==
    /\ sheet \in OpenedSheets
    /\ op = NoOp
    /\ read = NotRead
    /\ IdleFmt
    /\ IdleDate
    /\ IdleWorkbook

Assigned(impl, key, value, out) ==
    /\ sheet' = out.sheet
    /\ op' = [impl |-> impl, key |-> key, value |-> value,
              status |-> out.status, before |-> sheet, range |-> out.range]
    /\ UNCHANGED <<read, fmtVars, dateVars, workbookVars>>

\* Workbook.__setitem__ with the Range class of main.py
SetItemMain ==
    /\ op = NoOp
    /\ \E key \in Keys, value \in AssignedValues :
            Assigned("main", key, value, MainSetValues(sheet, key, value))

\* the same assignment with the Range class of range.py
SetItemRange ==
    /\ op = NoOp
    /\ \E key \in Keys, value \in AssignedValues :
            Assigned("range", key, value, RangeSetValues(sheet, key, value))

\* Workbook.__getitem__ and Range.values: wb[key].values, key the reference
\* just assigned to
GetItemValues ==
    /\ op # NoOp
    /\ read = NotRead
    /\ read' = [status |-> "ok", value |-> RangeValues(sheet, op.key)]
    /\ UNCHANGED <<sheet, op, fmtVars, dateVars, workbookVars>>

NextRange == SetItemMain \/ SetItemRange \/ GetItemValues

SpecRange == InitRange /\ [][NextRange]_vars

----------------------------------------------------------------------------
(* The date conversions called on serial numbers *)

\* the serial number of a calendar date
SerialOf(y, m, d) ==
    ToOrdinal(y, m, d) - ToOrdinal(DateOrigin.y, DateOrigin.m, DateOrigin.d)

\* serial numbers around the epoch, month and year ends, leap days, the
\* ends of the range named for the round trip, and the first and last date
Anchors ==
    {0, SerialOf(1900, 3, 1), SerialOf(1901, 1, 1), SerialOf(2000, 3, 1),
     SerialOf(2024, 3, 1), SerialOf(2100, 3, 1), SerialOf(2400, 12, 31),
     -100000, 100000, SerialOf(1, 1, 1), SerialOf(9999, 12, 31)}

Numbers == UNION {(a - DateWindow)..(a + DateWindow) : a \in Anchors}

InitDate ==
    /\ number \in Numbers
    /\ date = NoDate
    /\ serial = NoSerial
    /\ IdleFmt
    /\ IdleRange
    /\ IdleWorkbook

\* date = number_to_date(number)
NumberToDate ==
    /\ date = NoDate
    /\ date' = number_to_date(number)
    /\ UNCHANGED <<number, serial, fmtVars, rangeVars, workbookVars>>

\* serial = date_to_number(date), date the datetime number_to_date returned
DateToNumber ==
    /\ date.status = "ok"
    /\ date.kind = "datetime"
    /\ serial = NoSerial
    /\ serial' = date_to_number(date)
    /\ UNCHANGED <<number, date, fmtVars, rangeVars, workbookVars>>

\* serial = date_to_number(date.date()): the same call on a plain date
DateToNumberOfDate ==
    /\ date.status = "ok"
    /\ date.kind = "datetime"
    /\ serial = NoSerial
    /\ date' = DateOf(date)
    /\ serial' = date_to_number(DateOf(date))
    /\ UNCHANGED <<number, fmtVars, rangeVars, workbookVars>>

NextDate == NumberToDate \/ DateToNumber \/ DateToNumberOfDate

SpecDate == InitDate /\ [][NextDate]_vars

----------------------------------------------------------------------------
(* Workbook(filepath) *)

\* the directory part of a path is drawn from these characters
DirChars == {"t", ".", "/"}

\* extensions: the supported ones, unsupported ones, none
Extensions ==
    {supported_exts[i] : i \in DOMAIN supported_exts}
        \cup {<<".", "m", "p", "3">>, <<".", "d", "o", "c">>,
              <<".", "X", "L", "S", "X">>, <<".">>, <<>>}

\* the file is called test, under a directory of up to MaxDir characters
Paths ==
    {StrPath(dir \o <<"t", "e", "s", "t">> \o ext) :
        dir \in SeqsUpTo(DirChars, MaxDir), ext \in Extensions}
        \cup {StrPath(<<>>), NonePath}

InitOpen ==
    /\ filepath \in Paths
    /\ construct = NotConstructed
    /\ IdleFmt
    /\ IdleRange
    /\ IdleDate
    /\ IdleIndex
    /\ IdleBook
    /\ IdleProtect
    /\ IdleTable
    /\ IdleMore

\* wb = Workbook(filepath)
Construct ==
    /\ construct = NotConstructed
    /\ \E dispatch \in BOOLEAN, exists \in BOOLEAN, opens \in BOOLEAN,
          saves \in BOOLEAN :
            construct' = WorkbookInit(filepath, dispatch, exists, opens, saves)
    /\ UNCHANGED <<filepath, fmtVars, rangeVars, dateVars, indexVars, bookVars,
                   protectVars, tableVars, moreVars>>

NextOpen == Construct

SpecOpen == InitOpen /\ [][NextOpen]_vars

----------------------------------------------------------------------------
(* Indexing: wb[item] *)

\* row and column numbers from 0 to one past the sheet's last
RowNumbers == {PyInt(Digits[n + 1]) : n \in 0..(SheetRows + 1)}
ColumnNumbers == {PyInt(Digits[n + 1]) : n \in 0..(SheetCols + 1)}

\* (row, column)
CellTuples == {Tuple(<<r, c>>) : r \in RowNumbers, c \in ColumnNumbers}

\* 'A1' and its like, to one past the sheet's last row and column
CellNames ==
    {<<Letters[i], Digits[n + 1]>> : i \in 1..(SheetCols + 1), n \in 0..(SheetRows + 1)}

\* the three supported forms of a reference, and the empty text
Items ==
    {Str(a) : a \in CellNames}
        \cup {Str(a \o <<":">> \o b) : a \in CellNames, b \in CellNames}
        \cup {Str(<<>>)}
        \cup CellTuples
        \cup {Tuple(<<a, b>>) : a \in CellTuples, b \in CellTuples}

InitIndex ==
    /\ ref \in Items
    /\ indexed = NotIndexed
    /\ IdleFmt
    /\ IdleRange
    /\ IdleDate
    /\ IdleOpen
    /\ IdleBook
    /\ IdleProtect
    /\ IdleTable
    /\ IdleMore

\* Workbook.__getitem__: Range(self.app, item)
GetItem ==
    /\ indexed = NotIndexed
    /\ indexed' = RangeInit(ref)
    /\ UNCHANGED <<ref, fmtVars, rangeVars, dateVars, openVars, bookVars,
                   protectVars, tableVars, moreVars>>

NextIndex == GetItem

SpecIndex == InitIndex /\ [][NextIndex]_vars

----------------------------------------------------------------------------------------------------------------------------------------
(* The sheets of a workbook: add_sheet and active_sheet *)

\* the file the workbook was opened from
TestName == <<"t", "e", "s", "t", ".", "x", "l", "s", "x">>

SheetNames == {"Sheet1", "NewSheet1", "NewSheet2"}

\* the sheets of the workbook as opened: a new workbook's, or one more
OpenedSheetNames == {<<"Sheet1">>, <<"Sheet1", "NewSheet1">>}

OpenedBook(sheets) ==
    [state |-> "open", name |-> TestName, sheets |-> sheets, active |-> 1,
     saved |-> TRUE]

InitSheets ==
    /\ \E sheets \in OpenedSheetNames : books = <<OpenedBook(sheets), NoBook>>
    /\ activeBook = 1
    /\ running = TRUE
    /\ wb = [save_on_close |-> FALSE, quit_on_close |-> FALSE]
    /\ call = NoCall
    /\ IdleFmt
    /\ IdleRange
    /\ IdleDate
    /\ IdleOpen
    /\ IdleIndex
    /\ IdleProtect
    /\ IdleTable
    /\ IdleMore

\* the workbook is open: close() has not been called, the interpreter runs
Open == running /\ books[1].state = "open"

MethodCalled(opname, name, before, after, out) ==
    /\ books' = out.books
    /\ activeBook' = out.active
    /\ running' = out.running
    /\ call' = [op |-> opname, name |-> name, before |-> before,
                after |-> after, status |-> out.status, did |-> out.did]
    /\ UNCHANGED <<wb, fmtVars, rangeVars, dateVars, openVars, indexVars,
                   protectVars, tableVars, moreVars>>

\* wb.add_sheet(name, before, after)
AddSheet ==
    /\ Open
    /\ \E name \in SheetNames, before \in SheetNames \cup {NoName},
          after \in SheetNames \cup {NoName} :
            MethodCalled("add_sheet", name, before, after,
                         add_sheet(books, activeBook, name, before, after))

\* wb.active_sheet = name
SetActiveSheet ==
    /\ Open
    /\ \E name \in SheetNames :
            MethodCalled("active_sheet", name, NoName, NoName,
                         set_active_sheet(books, activeBook, name))

NextSheets == AddSheet \/ SetActiveSheet

SpecSheets == InitSheets /\ [][NextSheets]_vars

----------------------------------------------------------------------------
(* A Workbook from opening to closing: sheets added behind the others,      *)
(* active_sheet, open_in_new_workbook, save, close, the interpreter's exit  *)

InitBook ==
    /\ books = <<OpenedBook(<<"Sheet1">>), NoBook>>
    /\ activeBook = 1
    /\ running = TRUE
    /\ wb \in [save_on_close : BOOLEAN, quit_on_close : BOOLEAN]
    /\ call = NoCall
    /\ IdleFmt
    /\ IdleRange
    /\ IdleDate
    /\ IdleOpen
    /\ IdleIndex
    /\ IdleProtect
    /\ IdleTable
    /\ IdleMore

\* wb.add_sheet(name)
AddSheetLast ==
    /\ Open
    /\ \E name \in SheetNames :
            MethodCalled("add_sheet", name, NoName, NoName,
                         add_sheet(books, activeBook, name, NoName, NoName))

\* wb.active_sheet = name, name a sheet or not
ActivateSheet ==
    /\ Open
    /\ \E name \in SheetNames :
            MethodCalled("active_sheet", name, NoName, NoName,
                         set_active_sheet(books, activeBook, name))

\* wb.active_sheet.open_in_new_workbook(), once
OpenInNewWorkbook ==
    /\ Open
    /\ books[2].state = "absent"
    /\ MethodCalled("open_in_new_workbook", NoName, NoName, NoName,
                    open_in_new_workbook(books, activeBook))

\* wb.save()
Save ==
    /\ Open
    /\ MethodCalled("save", NoName, NoName, NoName, save(books, activeBook))

\* wb.close()
Close ==
    /\ Open
    /\ MethodCalled("close", NoName, NoName, NoName,
                    close(books, activeBook, wb.save_on_close, wb.quit_on_close))

\* the interpreter exits: the registered Application.Quit runs
AtExit ==
    /\ running
    /\ MethodCalled("atexit", NoName, NoName, NoName, at_exit(books))

NextBook ==
    AddSheetLast \/ ActivateSheet \/ OpenInNewWorkbook \/ Save \/ Close \/ AtExit

SpecBook == InitBook /\ [][NextBook]_vars

----------------------------------------------------------------------------
(* A Sheet method wrapped with run_without_protection, called once.  The    *)
(* method writes at most one cell and then returns or raises.               *)

InitProtect ==
    /\ protected \in BOOLEAN
    /\ wrapper = NotWrapped
    /\ sheet \in OpenedSheets
    /\ op = NoOp
    /\ read = NotRead
    /\ IdleFmt
    /\ IdleDate
    /\ IdleOpen
    /\ IdleIndex
    /\ IdleBook
    /\ IdleTable
    /\ IdleMore

\* wrapper_unprotect is called and reaches func(*args, **kwargs)
WrapperCalls ==
    /\ wrapper.pc = "idle"
    /\ protected' = BeforeFunc(protected)
    /\ wrapper' = [pc |-> "func", was |-> protected, wrote |-> FALSE]
    /\ UNCHANGED <<fmtVars, rangeVars, dateVars, openVars, indexVars, bookVars,
                   tableVars, moreVars>>

\* func writes a cell of the sheet, which the application allows on an
\* unprotected sheet
FuncWrites ==
    /\ wrapper.pc = "func"
    /\ ~wrapper.wrote
    /\ ~protected
    /\ \E r \in 1..SheetRows, c \in 1..SheetCols :
            sheet' = [sheet EXCEPT ![r][c] = PyInt("1")]
    /\ wrapper' = [wrapper EXCEPT !.wrote = TRUE]
    /\ UNCHANGED <<protected, op, read, fmtVars, dateVars, openVars, indexVars,
                   bookVars, tableVars, moreVars>>

\* func returns and the wrapper runs to its end
FuncReturns ==
    /\ wrapper.pc = "func"
    /\ protected' = AfterFunc(wrapper.was, protected)
    /\ wrapper' = [wrapper EXCEPT !.pc = "returned"]
    /\ UNCHANGED <<fmtVars, rangeVars, dateVars, openVars, indexVars, bookVars,
                   tableVars, moreVars>>

\* func raises: the exception leaves the wrapper at the call of func
FuncRaises ==
    /\ wrapper.pc = "func"
    /\ wrapper' = [wrapper EXCEPT !.pc = "raised"]
    /\ UNCHANGED <<protected, fmtVars, rangeVars, dateVars, openVars, indexVars,
                   bookVars, tableVars, moreVars>>

NextProtect == WrapperCalls \/ FuncWrites \/ FuncReturns \/ FuncRaises

SpecProtect == InitProtect /\ [][NextProtect]_vars

----------------------------------------------------------------------------
(* wb[cell].select_table() on a sheet holding a block of values *)

\* the value the filled cells hold
Filled == PyInt("1")

\* a sheet whose cells in `cells` are filled and whose other cells are blank
SheetWith(cells) ==
    [r \in 1..SheetRows |-> [c \in 1..SheetCols |->
        IF <<r, c>> \in cells THEN Filled ELSE None]]

AllCells == (1..SheetRows) \X (1..SheetCols)

\* the cells of the rectangle from (r1, c1) to (r2, c2)
Block(r1, c1, r2, c2) == (r1..r2) \X (c1..c2)

Blocks ==
    {Block(r1, c1, r2, c2) :
        r1 \in 1..SheetRows, c1 \in 1..SheetCols,
        r2 \in 1..SheetRows, c2 \in 1..SheetCols}

\* a filled block, whole, or with one cell of the sheet changed: a cell of
\* the block emptied or a cell outside it filled
TableSheets ==
    {SheetWith(b) : b \in Blocks}
        \cup {SheetWith(b \ {x}) : b \in Blocks, x \in AllCells}
        \cup {SheetWith(b \cup {x}) : b \in Blocks, x \in AllCells}

InitTable ==
    /\ sheet \in TableSheets
    /\ op = NoOp
    /\ read = NotRead
    /\ start \in [r : 1..SheetRows, c : 1..SheetCols]
    /\ table = NotSelected
    /\ IdleFmt
    /\ IdleDate
    /\ IdleOpen
    /\ IdleIndex
    /\ IdleBook
    /\ IdleProtect
    /\ IdleMore

\* wb[start].select_table()
SelectTable ==
    /\ table = NotSelected
    /\ table' = select_table(sheet, start.r, start.c)
    /\ UNCHANGED <<start, fmtVars, rangeVars, dateVars, openVars, indexVars,
                   bookVars, protectVars, moreVars>>

NextTable == SelectTable

SpecTable == InitTable /\ [][NextTable]_vars

----------------------------------------------------------------------------
(* with Workbook(path, save_on_close, quit_on_close) as wb: the body calls  *)
(* wb's methods; a method that raises, or the body's own code raising, ends *)
(* the body, and so does its last statement.  Then __exit__ runs.           *)

InitWith ==
    /\ books = <<OpenedBook(<<"Sheet1">>), NoBook>>
    /\ activeBook = 1
    /\ running = TRUE
    /\ wb \in [save_on_close : BOOLEAN, quit_on_close : BOOLEAN]
    /\ call = NoCall
    /\ block = [NoBlock EXCEPT !.pc = "body"]
    /\ IdleFmt
    /\ IdleRange
    /\ IdleDate
    /\ IdleOpen
    /\ IdleIndex
    /\ IdleProtect
    /\ IdleTable
    /\ IdleComment
    /\ IdleFrame
    /\ IdleProcess

\* a call in the body: an exception it raises leaves the body
BodyCalled(opname, name, out) ==
    /\ books' = out.books
    /\ activeBook' = out.active
    /\ running' = out.running
    /\ call' = [op |-> opname, name |-> name, before |-> NoName,
                after |-> NoName, status |-> out.status, did |-> out.did]
    /\ block' = IF out.status = "ok" THEN block
                ELSE [block EXCEPT !.pc = "raising", !.raised = out.status]
    /\ UNCHANGED <<wb, fmtVars, rangeVars, dateVars, openVars, indexVars,
                   protectVars, tableVars, commentVars, frameVars, processVars>>

\* wb.add_sheet(name) in the body
BodyAddsSheet ==
    /\ block.pc = "body"
    /\ \E name \in SheetNames :
            BodyCalled("add_sheet", name,
                       add_sheet(books, activeBook, name, NoName, NoName))

\* wb.active_sheet = name in the body
BodyActivatesSheet ==
    /\ block.pc = "body"
    /\ \E name \in SheetNames :
            BodyCalled("active_sheet", name,
                       set_active_sheet(books, activeBook, name))

\* wb.active_sheet.open_in_new_workbook() in the body, once
BodyOpensInNewWorkbook ==
    /\ block.pc = "body"
    /\ books[2].state = "absent"
    /\ BodyCalled("open_in_new_workbook", NoName,
                  open_in_new_workbook(books, activeBook))

\* wb.save() in the body
BodySaves ==
    /\ block.pc = "body"
    /\ BodyCalled("save", NoName, save(books, activeBook))

\* the body's own code raises
BodyRaises ==
    /\ block.pc = "body"
    /\ block' = [block EXCEPT !.pc = "raising", !.raised = "ValueError"]
    /\ UNCHANGED <<bookVars, fmtVars, rangeVars, dateVars, openVars, indexVars,
                   protectVars, tableVars, commentVars, frameVars, processVars>>

\* the with statement calls wb.__exit__: after the body's last statement, or
\* with the exception that left it
Exit ==
    /\ block.pc \in {"body", "raising"}
    /\ LET out == exit(books, activeBook, wb.save_on_close, wb.quit_on_close,
                       block.raised)
       IN  /\ books' = out.did.books
           /\ activeBook' = out.did.active
           /\ running' = out.did.running
           /\ call' = [op |-> "__exit__", name |-> NoName, before |-> NoName,
                       after |-> NoName, status |-> out.did.status,
                       did |-> out.did.did]
           /\ block' = [block EXCEPT !.pc = "exited",
                                     !.propagated = out.propagated]
    /\ UNCHANGED <<wb, fmtVars, rangeVars, dateVars, openVars, indexVars,
                   protectVars, tableVars, commentVars, frameVars, processVars>>

NextWith ==
    \/ BodyAddsSheet
    \/ BodyActivatesSheet
    \/ BodyOpensInNewWorkbook
    \/ BodySaves
    \/ BodyRaises
    \/ Exit

SpecWith == InitWith /\ [][NextWith]_vars

----------------------------------------------------------------------------
(* wb[key].to_dataframe(header, index) on a sheet full of values *)

\* every cell holds its column's number, or the text of its own address: the
\* cells of a row differ, so a header row has no label twice
FrameSheets ==
    {[r \in 1..SheetRows |-> [c \in 1..SheetCols |-> PyInt(Digits[c + 1])]],
     [r \in 1..SheetRows |-> [c \in 1..SheetCols |-> Str(Address(r, c))]]}

InitFrame ==
    /\ sheet \in FrameSheets
    /\ op = NoOp
    /\ read = NotRead
    /\ frame = NoFrame
    /\ IdleFmt
    /\ IdleDate
    /\ IdleOpen
    /\ IdleIndex
    /\ IdleBook
    /\ IdleProtect
    /\ IdleTable
    /\ IdleComment
    /\ IdleWith
    /\ IdleProcess

\* wb[key].to_dataframe(header, index)
ToDataFrame ==
    /\ frame = NoFrame
    /\ \E key \in Keys, header \in BOOLEAN, index \in BOOLEAN :
            LET out == to_dataframe(sheet, key, header, index)
            IN  frame' = [key |-> key, header |-> header, index |-> index,
                          status |-> out.status, columns |-> out.columns,
                          rows |-> out.rows, data |-> out.data]
    /\ UNCHANGED <<fmtVars, rangeVars, dateVars, openVars, indexVars, bookVars,
                   protectVars, tableVars, commentVars, withVars, processVars>>

NextFrame == ToDataFrame

SpecFrame == InitFrame /\ [][NextFrame]_vars

----------------------------------------------------------------------------
(* A process that constructs a Workbook and exits *)

InitLife ==
    /\ filepath \in Paths
    /\ construct = NotConstructed
    /\ process = NoProcess
    /\ IdleFmt
    /\ IdleRange
    /\ IdleDate
    /\ IdleIndex
    /\ IdleBook
    /\ IdleProtect
    /\ IdleTable
    /\ IdleComment
    /\ IdleWith
    /\ IdleFrame

\* wb = Workbook(filepath) in a running process
ConstructInProcess ==
    /\ construct = NotConstructed
    /\ ~process.exited
    /\ \E dispatch \in BOOLEAN, exists \in BOOLEAN, opens \in BOOLEAN,
          saves \in BOOLEAN :
            LET made == WorkbookInit(filepath, dispatch, exists, opens, saves)
            IN  /\ construct' = made
                /\ running' = dispatched(made.validated, dispatch)
                /\ process' = [process EXCEPT
                                !.registered = at_exit_registered(made.status)]
    /\ UNCHANGED <<filepath, books, activeBook, wb, call, fmtVars, rangeVars,
                   dateVars, indexVars, protectVars, tableVars, commentVars,
                   withVars, frameVars>>

\* the interpreter exits: the registered Application.Quit runs
ProcessExits ==
    /\ ~process.exited
    /\ process.registered
    /\ process' = [process EXCEPT !.exited = TRUE]
    /\ running' = at_exit(books).running
    /\ UNCHANGED <<openVars, books, activeBook, wb, call, fmtVars, rangeVars,
                   dateVars, indexVars, protectVars, tableVars, commentVars,
                   withVars, frameVars>>

\* the interpreter exits with nothing registered: no statement of the
\* program quits the application, which stays or goes as it decides
ProcessExitsUnregistered ==
    /\ ~process.exited
    /\ ~process.registered
    /\ process' = [process EXCEPT !.exited = TRUE]
    /\ running' \in {running, FALSE}
    /\ UNCHANGED <<openVars, books, activeBook, wb, call, fmtVars, rangeVars,
                   dateVars, indexVars, protectVars, tableVars, commentVars,
                   withVars, frameVars>>

NextLife == ConstructInProcess \/ ProcessExits \/ ProcessExitsUnregistered

SpecLife == InitLife /\ [][NextLife]_vars

----------------------------------------------------------------------------
(* wb[(r1, c1), (r2, c2)].select_table(): select_table on a range of any    *)
(* extent, on a sheet holding a block of values                             *)

\* the pairs of cell tuples that name cells of the sheet
RangeItems ==
    {item \in {Tuple(<<a, b>>) : a \in CellTuples, b \in CellTuples} :
        RangeInit(item).status = "ok"}

InitSelect ==
    /\ sheet \in {SheetWith(b) : b \in Blocks}
    /\ op = NoOp
    /\ read = NotRead
    /\ ref \in RangeItems
    /\ indexed = RangeInit(ref)
    /\ start = [r |-> 1, c |-> 1]
    /\ table = NotSelected
    /\ IdleFmt
    /\ IdleDate
    /\ IdleOpen
    /\ IdleBook
    /\ IdleProtect
    /\ IdleMore

\* wb[ref].select_table(): start_cell is the first cell of the range's address
SelectTableOfRange ==
    /\ table = NotSelected
    /\ table' = select_table(sheet, indexed.range.r1, indexed.range.c1)
    /\ UNCHANGED <<start, fmtVars, rangeVars, dateVars, openVars, indexVars,
                   bookVars, protectVars, moreVars>>

NextSelect == SelectTableOfRange

SpecSelect == InitSelect /\ [][NextSelect]_vars

----------------------------------------------------------------------------
(* rng = wb[key]; rng.comment = text, twice at most; wb[other].comment *)

\* the comment a cell held when the workbook was opened
OldComment == Str(<<"o", "l", "d">>)

\* the sheet's comments as the workbook was opened: none, or one on every cell
OpenedComments ==
    {NoComments, [r \in 1..SheetRows |-> [c \in 1..SheetCols |-> OldComment]]}

\* what is assigned to Range.comment: a text, or None
CommentTexts == {Str(<<"c", "o", "m", "m", "e", "n", "t">>), Str(<<"c">>), None}

InitComment ==
    /\ comments \in OpenedComments
    /\ note = NoNote
    /\ IdleFmt
    /\ IdleRange
    /\ IdleDate
    /\ IdleOpen
    /\ IdleIndex
    /\ IdleBook
    /\ IdleProtect
    /\ IdleTable
    /\ IdleWith
    /\ IdleFrame
    /\ IdleProcess

CommentSet(key, text, out) ==
    /\ comments' = out.comments
    /\ note' = [key |-> key, text |-> text, status |-> out.status,
                before |-> comments, sets |-> note.sets + 1, other |-> key,
                read |-> NotRead]
    /\ UNCHANGED <<fmtVars, rangeVars, dateVars, openVars, indexVars, bookVars,
                   protectVars, tableVars, withVars, frameVars, processVars>>

\* wb[key].comment = text
SetComment ==
    /\ note.sets = 0
    /\ \E key \in Keys, text \in CommentTexts :
            CommentSet(key, text, set_comment(comments, key, text))

\* the same Range object is given another comment
SetCommentAgain ==
    /\ note.sets = 1
    /\ \E text \in CommentTexts \ {note.text} :
            CommentSet(note.key, text, set_comment(comments, note.key, text))

\* wb[other].comment, other a range with the same first cell
GetComment ==
    /\ note.sets > 0
    /\ note.read = NotRead
    /\ \E other \in Keys :
            /\ other.r1 = note.key.r1
            /\ other.c1 = note.key.c1
            /\ note' = [note EXCEPT !.other = other,
                           !.read = [status |-> "ok",
                                     value |-> get_comment(comments, other)]]
    /\ UNCHANGED <<comments, fmtVars, rangeVars, dateVars, openVars, indexVars,
                   bookVars, protectVars, tableVars, withVars, frameVars,
                   processVars>>

NextComment == SetComment \/ SetCommentAgain \/ GetComment

SpecComment == InitComment /\ [][NextComment]_vars

----------------------------------------------------------------------------
(* The shape of an input, read off the value itself *)

IsScalar(v) == v.k \in {"NoneType", "int", "bool", "str"}

IsSequence(v) == v.k \in {"tuple", "list", "range"}

IsFlat(v) == IsSequence(v) /\ \A i \in DOMAIN v.items : IsScalar(v.items[i])

IsNested(v) == IsSequence(v) /\ \E i \in DOMAIN v.items : ~IsScalar(v.items[i])

IsFrame(v) == v.k = "DataFrame"

\* the rows of an input: a scalar is the one-cell row, a flat sequence is one
\* row, a scalar among rows is a one-cell row
RowsOf(v) ==
    IF IsScalar(v) THEN << <<v>> >>
    ELSE IF IsFlat(v) THEN <<v.items>>
    ELSE [i \in DOMAIN v.items |->
            IF IsScalar(v.items[i]) THEN <<v.items[i]>> ELSE v.items[i].items]

UsedRows(v) == Len(RowsOf(v))

UsedCols(v) ==
    IF \E i \in DOMAIN RowsOf(v) : TRUE
    THEN CHOOSE n \in {Len(RowsOf(v)[i]) : i \in DOMAIN RowsOf(v)} :
            \A i \in DOMAIN RowsOf(v) : Len(RowsOf(v)[i]) <= n
    ELSE 0

Fits(v, r, c) == UsedRows(v) <= r /\ UsedCols(v) <= c

\* the grid the rows of v make: left-aligned, top-aligned, padded with None
Padded(v, r, c) ==
    [i \in 1..r |-> [j \in 1..c |->
        IF i <= Len(RowsOf(v)) /\ j <= Len(RowsOf(v)[i])
        THEN RowsOf(v)[i][j] ELSE None]]

Called == result # NotCalled

Returned == Called /\ result.status = "ok"

----------------------------------------------------------------------------
(* Claims about format_values *)

\* C1: whenever format_values returns, for a scalar, a flat sequence, a
\* nested sequence or a frame, the result has exactly `rows` rows and every
\* row has exactly `col` cells.
C1_GridShape ==
    Returned =>
        /\ Len(result.grid) = rows
        /\ \A i \in 1..rows : Len(result.grid[i]) = col

C1_Witness ==
    /\ Returned
    /\ IsNested(values)
    /\ UsedRows(values) < rows
    /\ UsedCols(values) < col

\* C2: format_values raises ExcelError whenever the input has more rows than
\* `rows` or a row longer than `col`; it returns no truncated or wrapped grid.
C2_RaisesOnExcess ==
    (Called /\ ~Fits(values, rows, col)) =>
        /\ result.status = "ExcelError"
        /\ result.grid = <<>>

C2_Witness ==
    /\ Called
    /\ IsNested(values)
    /\ UsedRows(values) <= rows
    /\ UsedCols(values) > col
    /\ result.status = "ExcelError"

\* C3: a scalar (a number, a boolean, None, a text of any length) lands at
\* cell (0, 0) only; every other cell is None and a text is never split.
C3_ScalarAtOrigin ==
    (Called /\ IsScalar(values)) =>
        /\ result.status = "ok"
        /\ result.grid = [i \in 1..rows |-> [j \in 1..col |->
                IF i = 1 /\ j = 1 THEN values ELSE None]]

C3_Witness ==
    /\ Returned
    /\ values = Str(<<"a", "b">>)
    /\ rows > 1
    /\ col > 1
    /\ result.grid[1][1] = values
    /\ result.grid[2][2] = None

\* C4: a flat sequence s of scalars with len(s) <= col becomes row 0, padded
\* with None to col cells, and every other row is all None.
C4_FlatIsOneRow ==
    (Called /\ IsFlat(values) /\ Len(values.items) <= col) =>
        /\ result.status = "ok"
        /\ result.grid = Padded(values, rows, col)

\* C4, for the flat sequences that are lists or tuples: these are laid out
\* as the claim says.
C4_FlatListOrTuple ==
    (Called /\ IsFlat(values) /\ IsListOrTuple(values)
        /\ Len(values.items) <= col) =>
        /\ result.status = "ok"
        /\ result.grid = Padded(values, rows, col)

\* C5: for a nested sequence that fits, cell (i, j) is element j of source
\* row i when it exists and None otherwise; a scalar among the rows is a
\* one-cell row at its own row index.
C5_NestedCellByCell ==
    (Called /\ IsNested(values) /\ Fits(values, rows, col)) =>
        /\ result.status = "ok"
        /\ result.grid = Padded(values, rows, col)

\* C5, for the nested sequences whose rows are all lists or tuples (or
\* scalars): these are laid out as the claim says.
C5_NestedListOrTuple ==
    (Called /\ IsNested(values) /\ Fits(values, rows, col)
        /\ \A i \in DOMAIN values.items :
                IsScalar(values.items[i]) \/ IsListOrTuple(values.items[i])) =>
        /\ result.status = "ok"
        /\ result.grid = Padded(values, rows, col)

----------------------------------------------------------------------------
(* Claims about the date conversions *)

\* the calendar, counted directly: the days of a month, the days of the
\* years and months before a date
DaysInMonth(y, m) ==
    IF m = 2 THEN (IF IsLeap(y) THEN 29 ELSE 28)
    ELSE IF m \in {4, 6, 9, 11} THEN 30 ELSE 31

RECURSIVE DaysInMonthsBefore(_, _)
DaysInMonthsBefore(y, m) ==
    IF m <= 1 THEN 0 ELSE DaysInMonth(y, m - 1) + DaysInMonthsBefore(y, m - 1)

LeapYearsBefore(y) == ((y - 1) \div 4) - ((y - 1) \div 100) + ((y - 1) \div 400)

DayNumber(y, m, d) ==
    365 * (y - 1) + LeapYearsBefore(y) + DaysInMonthsBefore(y, m) + d

ValidDate(dt) ==
    /\ dt.y \in 1..9999
    /\ dt.m \in 1..12
    /\ dt.d \in 1..DaysInMonth(dt.y, dt.m)

\* dt is exactly n days after 30 December 1899
DaysAfterEpoch(dt, n) ==
    ValidDate(dt) /\ DayNumber(dt.y, dt.m, dt.d) - DayNumber(1899, 12, 30) = n

DateCalled == date.status # "not called"

SerialCalled == serial.status # "not called"

\* C6: date_to_number(number_to_date(n)) returns n for every integer n.
C6_RoundTrip ==
    (SerialCalled /\ date.kind = "datetime") =>
        /\ serial.status = "ok"
        /\ serial.n = number

----------------------------------------------------------------------------
(* Claims about range assignment *)

AssignmentDone == op.status # "none"

\* the cells of the addressed range other than its first cell
OtherCells(rng) ==
    {rc \in (rng.r1..rng.r2) \X (rng.c1..rng.c2) : rc # <<rng.r1, rng.c1>>}

\* C8: an assignment that fails with the dimension error writes nothing:
\* every cell holds the value it held before.
C8_FailedAssignmentWritesNothing ==
    (AssignmentDone /\ op.status = "ExcelError") => sheet = op.before

C8_Witness ==
    /\ op.status = "ExcelError"
    /\ IsNested(op.value)
    /\ op.before # BlankSheet
    /\ sheet = op.before

\* C9: assigning a frame with more rows or more columns than the addressed
\* range raises ExcelError instead of writing.
C9_FrameTooLargeRaises ==
    (AssignmentDone /\ IsFrame(op.value)
        /\ ~Fits(op.value, RangeRows(op.key), RangeColumns(op.key))) =>
        /\ op.status = "ExcelError"
        /\ sheet = op.before

\* C9, for the Range class of main.py alone: there the frame is reconciled
\* against the addressed range and the assignment raises.
C9_MainFrameTooLargeRaises ==
    (AssignmentDone /\ op.impl = "main" /\ IsFrame(op.value)
        /\ ~Fits(op.value, RangeRows(op.key), RangeColumns(op.key))) =>
        /\ op.status = "ExcelError"
        /\ sheet = op.before

----------------------------------------------------------------------------
(* Claims about reading a range back *)

ReadBack == read.status = "ok"

\* Python's ==  on two cell values: numbers compare by value whatever their
\* type (1 == 1.0, True == 1), everything else by type and content
NumberOf(v) ==
    IF v.k = "bool" THEN (IF v.v = <<"True">> THEN <<"1">> ELSE <<"0">>) ELSE v.v

PyEq(a, b) ==
    IF a.k \in {"int", "float", "bool"} /\ b.k \in {"int", "float", "bool"}
    THEN NumberOf(a) = NumberOf(b)
    ELSE a = b

\* wb[key].values is `want` cell by cell: the bare cell for a one-cell
\* range, a tuple of row tuples otherwise
ReadsAs(want) ==
    LET r == RangeRows(op.key)
        c == RangeColumns(op.key)
    IN  IF r = 1 /\ c = 1 THEN PyEq(read.value, want[1][1])
        ELSE /\ read.value.k = "tuple"
             /\ Len(read.value.items) = r
             /\ \A i \in 1..r :
                    /\ read.value.items[i].k = "tuple"
                    /\ Len(read.value.items[i].items) = c
                    /\ \A j \in 1..c :
                            PyEq(read.value.items[i].items[j], want[i][j])

\* C11: after wb[r] = v succeeds, wb[r].values returns the supplied values at
\* their row and column positions and None in every cell of the range that
\* was not supplied; for a one-cell range it returns the bare value.
C11_WriteThenRead ==
    (ReadBack /\ op.status = "ok") =>
        ReadsAs(Padded(op.value, RangeRows(op.key), RangeColumns(op.key)))

\* a supplied value as the cell keeps it: the empty text leaves the cell empty
Kept(v) == IF v = Str(<<>>) THEN None ELSE v

\* C11, for the Range class of main.py alone: there the round trip holds,
\* except that a supplied empty text reads back as None.
C11_MainWriteThenReadKept ==
    (ReadBack /\ op.status = "ok" /\ op.impl = "main") =>
        ReadsAs([i \in 1..RangeRows(op.key) |-> [j \in 1..RangeColumns(op.key) |->
            Kept(Padded(op.value, RangeRows(op.key), RangeColumns(op.key))[i][j])]])

----------------------------------------------------------------------------
(* Claims about file types *)

Constructed == construct # NotConstructed

\* the part of a path after its last separator
FileName(s) ==
    IF \E i \in DOMAIN s : s[i] = "/"
    THEN LET i == CHOOSE k \in DOMAIN s :
                    s[k] = "/" /\ \A j \in (k + 1)..Len(s) : s[j] # "/"
         IN  SubSeq(s, i + 1, Len(s))
    ELSE s

\* the part of s from its last full stop on, empty without a full stop
FromLastStop(s) ==
    IF \E i \in DOMAIN s : s[i] = "."
    THEN LET i == CHOOSE k \in DOMAIN s :
                    s[k] = "." /\ \A j \in DOMAIN s : s[j] = "." => j <= k
         IN  SubSeq(s, i, Len(s))
    ELSE <<>>

\* the extension of a path: that of its file name
Extension(fp) == FromLastStop(FileName(PyStr(fp)))

Supported(ext) == ext \in {supported_exts[i] : i \in DOMAIN supported_exts}

\* C12: Workbook(filepath) raises ExcelError when the extension of filepath
\* is not in the supported list; validate_file_type returns the path
\* unchanged when it has no extension or a supported one.
C12_UnsupportedExtensionRaises ==
    Constructed =>
        /\ (Extension(filepath) # <<>> /\ ~Supported(Extension(filepath))) =>
                construct.status = "ExcelError"
        /\ (Extension(filepath) = <<>> \/ Supported(Extension(filepath))) =>
                construct.validated = [status |-> "ok", path |-> filepath]

\* C12, reading the extension as everything from the last full stop of the
\* whole path, directories included: so read, the statement holds.
C12_FromLastStopOfPath ==
    Constructed =>
        LET ext == FromLastStop(PyStr(filepath)) IN
        /\ (ext # <<>> /\ ~Supported(ext)) => construct.status = "ExcelError"
        /\ (ext = <<>> \/ Supported(ext)) =>
                construct.validated = [status |-> "ok", path |-> filepath]

----------------------------------------------------------------------------
(* Claims about indexing *)

Indexed == indexed # NotIndexed

\* the cells a reference names, in any of its three forms: <<r1, c1, r2, c2>>
NamedCells(item) ==
    IF item.k = "str"
    THEN IF Len(item.v) = 2
         THEN LET cell == A1Cell(item.v) IN <<cell.r, cell.c, cell.r, cell.c>>
         ELSE IF Len(item.v) = 5
         THEN LET a == A1Cell(SubSeq(item.v, 1, 2))
                  b == A1Cell(SubSeq(item.v, 4, 5))
              IN  <<a.r, a.c, b.r, b.c>>
         ELSE <<0, 0, 0, 0>>
    ELSE IF item.items[1].k = "tuple"
    THEN <<NumOf(item.items[1].items[1]), NumOf(item.items[1].items[2]),
           NumOf(item.items[2].items[1]), NumOf(item.items[2].items[2])>>
    ELSE <<NumOf(item.items[1]), NumOf(item.items[2]),
           NumOf(item.items[1]), NumOf(item.items[2])>>

\* every cell the reference names is a cell of the sheet
Resolvable(item) ==
    /\ NamedCells(item)[1] \in 1..SheetRows
    /\ NamedCells(item)[3] \in 1..SheetRows
    /\ NamedCells(item)[2] \in 1..SheetCols
    /\ NamedCells(item)[4] \in 1..SheetCols

\* C13: wb[item] with a reference the application cannot resolve raises
\* ExcelError, whether item is an address, a (row, column) tuple or a pair of
\* such tuples; no other error leaves Range construction.
C13_UnresolvedRaisesExcelError ==
    Indexed =>
        /\ ~Resolvable(ref) => indexed.status = "ExcelError"
        /\ indexed.status \in {"ok", "ExcelError"}

\* C13, for addresses alone: there the error is ExcelError.
C13_UnresolvedAddressRaisesExcelError ==
    (Indexed /\ ref.k = "str") =>
        /\ ~Resolvable(ref) => indexed.status = "ExcelError"
        /\ indexed.status \in {"ok", "ExcelError"}

----------------------------------------------------------------------------
(* Claims about the sheets of a workbook *)

\* wb.sheet_names, now
SheetNamesNow == sheet_names(books, activeBook)

\* xs without x
Without(xs, x) == SelectSeq(xs, LAMBDA y : y # x)

\* the places of x in xs
PlacesOf(xs, x) == {i \in DOMAIN xs : xs[i] = x}

\* before and after as add_sheet is meant to be given them: sheets of the
\* workbook, and not both
PlaceGiven(before, after) ==
    /\ before = NoName \/ Contains(SheetNamesNow, before)
    /\ after = NoName \/ Contains(SheetNamesNow, after)
    /\ before = NoName \/ after = NoName

\* C14: add_sheet(name) for a name not yet in the workbook adds exactly one
\* sheet called name and keeps the order of the others; the new sheet is
\* last without before and after, immediately before `before`, immediately
\* after `after`.  This holds at every add_sheet call of every sequence.
C14_AddSheetPlacesNewSheet ==
    [][(/\ call'.op = "add_sheet"
        /\ ~Contains(SheetNamesNow, call'.name)
        /\ PlaceGiven(call'.before, call'.after)) =>
            /\ call'.status = "ok"
            /\ Cardinality(PlacesOf(SheetNamesNow', call'.name)) = 1
            /\ Without(SheetNamesNow', call'.name) = SheetNamesNow
            /\ (call'.before = NoName /\ call'.after = NoName) =>
                    SheetNamesNow'[Len(SheetNamesNow')] = call'.name
            /\ call'.before # NoName =>
                    PlacesOf(SheetNamesNow', call'.before)
                        = {i + 1 : i \in PlacesOf(SheetNamesNow', call'.name)}
            /\ call'.after # NoName =>
                    PlacesOf(SheetNamesNow', call'.after)
                        = {i - 1 : i \in PlacesOf(SheetNamesNow', call'.name)}]_vars

C14_Witness ==
    /\ call.op = "add_sheet"
    /\ call.status = "ok"
    /\ call.before = "NewSheet1"
    /\ SheetNamesNow = <<"Sheet1", "NewSheet2", "NewSheet1">>

\* C15: add_sheet(name) for a name that is already a sheet raises ExcelError
\* and leaves sheet_names as it was, and sheet_names never holds a name twice.
C15_DuplicateNameRaises ==
    /\ [][(call'.op = "add_sheet" /\ Contains(SheetNamesNow, call'.name)) =>
            /\ call'.status = "ExcelError"
            /\ SheetNamesNow' = SheetNamesNow]_vars
    /\ [](\A i, j \in DOMAIN SheetNamesNow :
            SheetNamesNow[i] = SheetNamesNow[j] => i = j)

C15_Witness ==
    /\ call.op = "add_sheet"
    /\ call.status = "ExcelError"
    /\ Len(SheetNamesNow) = 2
    /\ SheetNamesNow[2] = call.name

\* wb.active_sheet.name, now
ActiveSheetNow == ActiveSheetName(books, activeBook)

----------------------------------------------------------------------------
(* Claims about the Workbook from opening to closing *)

\* C16: while the workbook is open, whatever was called before, Workbook.name
\* is the name of the workbook this object opened (workbook.Name) and the
\* basename of Workbook.path.
C16_NameIsOwnWorkbooksName ==
    Open =>
        /\ WorkbookName(books, activeBook) = books[1].name
        /\ WorkbookName(books, activeBook) = FileName(WorkbookPath(books))

\* C16, until a sheet is opened in a new workbook: up to then the name is
\* the opened workbook's.
C16_NameUntilNewWorkbook ==
    (Open /\ books[2].state = "absent") =>
        /\ WorkbookName(books, activeBook) = books[1].name
        /\ WorkbookName(books, activeBook) = FileName(WorkbookPath(books))

\* C18: close() closes the workbook, saving its changes exactly when
\* save_on_close is True, and then quits the application exactly when
\* quit_on_close is True: the workbook is closed before the application is
\* quit, and with quit_on_close False the application keeps running.
C18_CloseSavesAndQuitsAsTold ==
    [][call'.op = "close" =>
            /\ books'[1].state = "closed"
            /\ books'[1].saved = (books[1].saved \/ wb.save_on_close)
            /\ call'.did = IF wb.quit_on_close THEN <<"Close", "Quit">>
                           ELSE <<"Close">>
            /\ running' = ~wb.quit_on_close]_vars

C18_Witness ==
    /\ call.op = "close"
    /\ wb.save_on_close
    /\ ~wb.quit_on_close
    /\ Len(books[1].sheets) > 1
    /\ books[1].state = "closed"
    /\ books[1].saved
    /\ running

----------------------------------------------------------------------------
(* Claims about run_without_protection *)

\* C19: a function wrapped with run_without_protection and called on a
\* protected sheet runs while the sheet is unprotected, and once it has
\* returned the sheet is protected again; called on an unprotected sheet it
\* runs and the sheet stays unprotected.
C19_UnprotectedWhileRunning ==
    /\ (wrapper.pc = "func" /\ wrapper.was) => ~protected
    /\ (wrapper.pc = "returned" /\ wrapper.was) => protected
    /\ (wrapper.pc \in {"func", "returned"} /\ ~wrapper.was) => ~protected

C19_Witness ==
    /\ wrapper.pc = "returned"
    /\ wrapper.was
    /\ wrapper.wrote
    /\ protected

----------------------------------------------------------------------------
(* Claims about select_table *)

Selected == table # NotSelected

NonEmpty(r, c) == sheet[r][c] # None

\* the last column of the unbroken run of non-empty cells from (r, c) to the
\* right, c itself when its neighbour is blank; likewise the last row below
RunEndRight(r, c) ==
    CHOOSE e \in c..SheetCols :
        /\ \A j \in c..e : NonEmpty(r, j)
        /\ e = SheetCols \/ ~NonEmpty(r, e + 1)

RunEndDown(r, c) ==
    CHOOSE e \in r..SheetRows :
        /\ \A i \in r..e : NonEmpty(i, c)
        /\ e = SheetRows \/ ~NonEmpty(e + 1, c)

\* the block from (r1, c1) to (r2, c2) is filled and every cell of the sheet
\* next to it is blank
FilledBlock(r1, c1, r2, c2) ==
    /\ r1 <= r2
    /\ c1 <= c2
    /\ \A rc \in Block(r1, c1, r2, c2) : NonEmpty(rc[1], rc[2])
    /\ \A rc \in AllCells \ Block(r1, c1, r2, c2) :
            (rc[1] \in (r1 - 1)..(r2 + 1) /\ rc[2] \in (c1 - 1)..(c2 + 1)) =>
                ~NonEmpty(rc[1], rc[2])

\* what the claim says of a call from the non-empty cell `start`
TableAsClaimed ==
    /\ table.status = "ok"
    /\ table.range = CellRange(start.r, start.c,
                               RunEndDown(start.r, start.c),
                               RunEndRight(start.r, start.c))
    /\ \A r1, r2 \in 1..SheetRows, c1, c2 \in 1..SheetCols :
            (FilledBlock(r1, c1, r2, c2) /\ InRange(CellRange(r1, c1, r2, c2), start.r, start.c)) =>
                IF start.r = r1 /\ start.c = c1
                THEN table.range = CellRange(r1, c1, r2, c2)
                ELSE table.range # CellRange(r1, c1, r2, c2)

\* C20: from a non-empty start cell s, select_table sets the range to s:e,
\* e's column the end of the unbroken run of non-empty cells right of s and
\* e's row the end of the run below s (those of s itself when the neighbour
\* is blank); from the top-left cell of a filled block bordered by blank
\* cells the result is that block, and from any other cell of the block it
\* is a different range.
C20_SelectTableFollowsRuns ==
    (Selected /\ NonEmpty(start.r, start.c)) => TableAsClaimed

\* C20, for a start cell that is not in the sheet's last row or last column:
\* there the statement holds.
C20_AwayFromLastRowAndColumn ==
    (Selected /\ NonEmpty(start.r, start.c)
        /\ start.r < SheetRows /\ start.c < SheetCols) => TableAsClaimed

----------------------------------------------------------------------------
(* Claims about comments *)

\* the ranges whose first cell is the first cell of rng
SameFirstCell(rng) == {k \in Keys : k.r1 = rng.r1 /\ k.c1 = rng.c1}

\* C21: after range.comment = text, the comment of every range with the same
\* first cell reads back as that text, whatever comment the cell had before;
\* after range.comment = None it reads back as None.
C21_CommentReadsBack ==
    note.sets > 0 =>
        /\ note.status = "ok"
        /\ \A k \in SameFirstCell(note.key) : get_comment(comments, k) = note.text
        /\ note.read # NotRead => note.read.value = note.text

C21_Witness ==
    /\ note.sets = 1
    /\ note.text = Str(<<"c", "o", "m", "m", "e", "n", "t">>)
    /\ note.before[note.key.r1][note.key.c1] = OldComment
    /\ note.other # note.key
    /\ note.read = [status |-> "ok", value |-> note.text]

----------------------------------------------------------------------------
(* Claims about the Workbook as a context manager *)

\* C22: every exit from the with-block, after the body's last statement or
\* with an exception, calls close(): the workbook is closed, saved exactly
\* when save_on_close is True (or already saved), the application quit
\* exactly when quit_on_close is True, and the exception that left the body
\* leaves the with statement too.  A block once left stays closed.
C22_ExitAlwaysCloses ==
    /\ [][(block.pc # "exited" /\ block'.pc = "exited") =>
            /\ books'[1].state = "closed"
            /\ books'[1].saved = (books[1].saved \/ wb.save_on_close)
            /\ call'.did = IF wb.quit_on_close THEN <<"Close", "Quit">>
                           ELSE <<"Close">>
            /\ running' = ~wb.quit_on_close
            /\ block'.propagated = block.raised]_vars
    /\ [][block.pc = "raising" => block'.pc = "exited"]_vars
    /\ [](block.pc = "exited" => books[1].state = "closed")

C22_Witness ==
    /\ block.pc = "exited"
    /\ block.propagated = "ExcelError"
    /\ wb.save_on_close
    /\ wb.quit_on_close
    /\ Len(books[1].sheets) > 1
    /\ books[1].state = "closed"
    /\ books[1].saved
    /\ ~running

----------------------------------------------------------------------------
(* Claims about to_dataframe *)

FrameAsked == frame # NoFrame

\* the value wb[...].values gives for cell (i, j) of the range asked about
FrameCell(i, j) ==
    CellValue2(sheet[frame.key.r1 + i - 1][frame.key.c1 + j - 1])

\* what the claim says of the frame: the range's rows and columns, less the
\* header row and the index column where asked for, which become the labels
FrameAsClaimed ==
    LET r == RangeRows(frame.key)
        c == RangeColumns(frame.key)
        i0 == IF frame.header THEN 1 ELSE 0
        j0 == IF frame.index THEN 1 ELSE 0
    IN  /\ frame.status = "ok"
        /\ Len(frame.data) = r - i0
        /\ Len(frame.rows) = r - i0
        /\ Len(frame.columns) = c - j0
        /\ \A i \in 1..(r - i0) :
                /\ Len(frame.data[i]) = c - j0
                /\ \A j \in 1..(c - j0) :
                        frame.data[i][j] = FrameCell(i + i0, j + j0)
        /\ frame.header =>
                \A j \in 1..(c - j0) : frame.columns[j] = FrameCell(1, j + j0)
        /\ frame.index =>
                \A i \in 1..(r - i0) : frame.rows[i] = FrameCell(i + i0, 1)

\* C23: for every range holding a value, a single cell included,
\* to_dataframe() returns a frame with the range's rows and columns; with
\* header=True the first row becomes the column labels and leaves the data,
\* with index=True the first column becomes the index and leaves the columns.
C23_FrameOfRange ==
    FrameAsked => FrameAsClaimed

\* C23, for the ranges of more than one cell: there the statement holds.
C23_FrameOfSeveralCells ==
    (FrameAsked /\ (RangeRows(frame.key) > 1 \/ RangeColumns(frame.key) > 1)) =>
        FrameAsClaimed

----------------------------------------------------------------------------
(* Claims about what a frame assignment touches *)

\* every cell outside the addressed range holds what it held before, and the
\* Range object still is the addressed range
OnlyAddressedRangeTouched ==
    /\ \A r \in 1..SheetRows, c \in 1..SheetCols :
            ~InRange(op.key, r, c) => sheet[r][c] = op.before[r][c]
    /\ op.range = op.key

\* C24: assigning a frame to a range changes only cells of the addressed
\* range, and the Range object's address, rows and columns are afterwards
\* what they were before.
C24_FrameStaysInRange ==
    (AssignmentDone /\ IsFrame(op.value)) => OnlyAddressedRangeTouched

\* C24, for the Range class of main.py alone: there the statement holds.
C24_MainFrameStaysInRange ==
    (AssignmentDone /\ op.impl = "main" /\ IsFrame(op.value)) =>
        OnlyAddressedRangeTouched

----------------------------------------------------------------------------
(* Claims about which workbook a Workbook object acts on *)

\* C25: save and sheet_names act on the workbook this Workbook object
\* opened, also when another workbook has become the application's active
\* workbook: sheet_names lists the opened workbook's sheets, and save saves
\* the opened workbook and touches no other.
C25_ActsOnOwnWorkbook ==
    /\ [](Open => sheet_names(books, activeBook) = books[1].sheets)
    /\ [][call'.op = "save" =>
            /\ books'[1].saved
            /\ books'[2] = books[2]]_vars

\* C25, until a sheet is opened in a new workbook: up to then the opened
\* workbook is the active one and the statement holds.
C25_OwnWorkbookUntilNewWorkbook ==
    /\ []((Open /\ books[2].state = "absent") =>
            sheet_names(books, activeBook) = books[1].sheets)
    /\ [][(call'.op = "save" /\ books[2].state = "absent") =>
            /\ books'[1].saved
            /\ books'[2] = books[2]]_vars

----------------------------------------------------------------------------
(* Claims about run_without_protection when the function raises *)

\* C26: when a function wrapped with run_without_protection raises, the
\* sheet's protection after the call is what it was before the call.
C26_ProtectionKeptWhenFuncRaises ==
    wrapper.pc = "raised" => protected = wrapper.was

\* C26, for a sheet that was not protected at the call: it stays unprotected.
C26_UnprotectedKeptWhenFuncRaises ==
    (wrapper.pc = "raised" /\ ~wrapper.was) => protected = wrapper.was

----------------------------------------------------------------------------
(* Claims about saving under the supported extensions *)

\* C27: every extension validate_file_type accepts has a save code, so
\* constructing a Workbook on a path with a supported extension, the file
\* being saved when it does not exist yet, saves or raises ExcelError and
\* never another error.
C27_SupportedExtensionSaves ==
    (Constructed /\ Supported(get_extension(filepath))) =>
        /\ get_extension(filepath) \in ext_save_codes
        /\ construct.status \in {"ok", "ExcelError"}

\* C27, for the extensions that have a save code: with these the
\* construction saves or raises ExcelError.
C27_ExtensionWithSaveCodeSaves ==
    (Constructed /\ get_extension(filepath) \in ext_save_codes) =>
        construct.status \in {"ok", "ExcelError"}

----------------------------------------------------------------------------
(* Claims about releasing the application *)

\* C28: whatever the constructor did, once the process has exited the
\* application it reached is quit, also when the construction failed after
\* the application was dispatched.
C28_QuitByProcessExit ==
    process.exited => ~running

\* C28, for a construction that succeeded or never reached the application:
\* then no application is left running at the exit.
C28_QuitAfterConstruction ==
    (process.exited /\ (construct.status = "ok" \/ ~Constructed
            \/ construct.validated.status # "ok")) =>
        ~running

----------------------------------------------------------------------------
(* Claims about iterables that are neither lists nor tuples *)

\* an iterable other than a list or a tuple (and not a text)
IsOtherIterable(v) == is_iter(v) /\ ~IsListOrTuple(v) /\ ~IsFrame(v)

\* the input is such an iterable, or has one among its rows
HasOtherIterable(v) ==
    \/ IsOtherIterable(v)
    \/ IsSequence(v) /\ \E i \in DOMAIN v.items : IsOtherIterable(v.items[i])

\* C29: an input that is, or has among its rows, an iterable other than a
\* list or tuple, and that fits the target, is copied element by element:
\* element j of row i lands at cell (i, j), every other cell is None, no
\* cell holds an iterable object, and no error is raised.
C29_OtherIterablesCopiedByElement ==
    (Called /\ HasOtherIterable(values) /\ Fits(values, rows, col)) =>
        /\ result.status = "ok"
        /\ result.grid = Padded(values, rows, col)
        /\ \A i \in 1..rows, j \in 1..col : ~is_iter(result.grid[i][j])

\* C29, for what does hold of such inputs: one that does not fit raises
\* ExcelError, and one that fits raises nothing but IndexError.
C29_OtherIterablesErrors ==
    (Called /\ HasOtherIterable(values)) =>
        /\ ~Fits(values, rows, col) => result.status = "ExcelError"
        /\ Fits(values, rows, col) => result.status \in {"ok", "IndexError"}

----------------------------------------------------------------------------
(* Claims about what select_table keeps of a range *)

\* every cell of the range before the call belongs to the range after it,
\* and the first cell is the same
RangeOnlyGrown ==
    /\ table.status = "ok"
    /\ \A r \in 1..SheetRows, c \in 1..SheetCols :
            InRange(indexed.range, r, c) => InRange(table.range, r, c)
    /\ table.range.r1 = indexed.range.r1
    /\ table.range.c1 = indexed.range.c1

\* C30: select_table only adds cells to a range, a range of several cells
\* included: every cell of the range before the call is in the range after
\* it, and the first cell stays.
C30_SelectTableOnlyAdds ==
    Selected => RangeOnlyGrown

\* C30, for a range of one cell that is not in the sheet's last row or last
\* column: there the statement holds.
C30_OneCellOnlyGrows ==
    (Selected /\ RangeRows(indexed.range) = 1 /\ RangeColumns(indexed.range) = 1
        /\ indexed.range.r1 < SheetRows /\ indexed.range.c1 < SheetCols) =>
        RangeOnlyGrown

====
